---- MODULE Spec2Model ----
(***************************************************************************)
(* thrud: the sample store (src/storage/mod.rs) and the Apple Silicon CPU  *)
(* rate aggregation (src/storage/aggregations/apple_silicon_cpu.rs).       *)
(*                                                                         *)
(* The aggregation is two SQL statements over the metrics table. They are  *)
(* modelled clause by clause: a CTE is an operator over the set of rowids  *)
(* it selects, a window function is the predecessor of a row inside its    *)
(* partition, an aggregate is a fold over the rows of a group.             *)
(*                                                                         *)
(* REAL values are modelled as exact rationals <<n, d>> in lowest terms    *)
(* with d > 0; SQL NULL in a REAL column is <<0, 0>>. A nullable TEXT or   *)
(* INTEGER column is a sequence of length 0 (NULL) or 1 (the value).       *)
(* A TEXT value holding a number (core_id, cluster_id, the window_seconds  *)
(* parameter) is the sequence of its decimal digits.                       *)
(*                                                                         *)
(* The chart encoders of src/storage/sqlite.rs take f64 percentages, which *)
(* are modelled as the same exact rationals; a chart string is the         *)
(* sequence of the Unicode code points of its characters.                  *)
(*                                                                         *)
(* The round store of src/storage/sqlite.rs (store_metrics, the chart      *)
(* generation pass, store_chart, get_latest_charts) and the compact output *)
(* of src/bin/chart_query.rs are modelled over the tables                  *)
(* collection_rounds, stored_metrics and charts; an RFC 3339 timestamp is  *)
(* the sequence of its characters, compared as SQLite compares TEXT.       *)
(***************************************************************************)
EXTENDS Integers, Sequences, FiniteSets, TLC

VARIABLES metrics, now, result, values, chart,
          collection_rounds, stored_metrics, txs, lock, issued, seen,
          charts, outcome

vars == <<metrics, now, result, values, chart,
         collection_rounds, stored_metrics, txs, lock, issued, seen,
         charts, outcome>>

\* the argument and the result of the chart encoders of src/storage/sqlite.rs
chartVars == <<values, chart>>

\* the database of src/storage/sqlite.rs: its committed tables, the transactions of
\* the connections writing to it, the holder of its write lock, the ids handed out,
\* and what the last reader saw
metricStoreVars == <<collection_rounds, stored_metrics, txs, lock, issued, seen>>

\* the charts table of the same database and what the last call on it returned
chartStoreVars == <<charts, outcome>>

storeVars == <<metricStoreVars, chartStoreVars>>

(***************************************************************************)
(* Bounds of the model.                                                    *)
(***************************************************************************)
\* rows the metrics table may hold when two cores report (Spec)
MaxRows == 3
\* rows the metrics table may hold when one core reports (SpecCore)
MaxCoreRows == 4
\* full sampling rounds of one core the table may hold (SpecRounds)
MaxRounds == 2
\* steps the clock takes
MaxSteps == 2

(***************************************************************************)
(* Exact rational arithmetic for REAL columns.                             *)
(***************************************************************************)
Abs(x) == IF x < 0 THEN -x ELSE x

RECURSIVE GCD(_, _)
GCD(a, b) == IF b = 0 THEN a ELSE GCD(b, a % b)

\* n/d in lowest terms, d # 0
Rat(n, d) ==
    LET g == GCD(Abs(n), Abs(d))
        s == IF d < 0 THEN -1 ELSE 1
    IN  <<(s * n) \div g, (s * d) \div g>>

NullRate == <<0, 0>>
ZeroRate == <<0, 1>>
IsNull(r) == r[2] = 0

\* SQL arithmetic: NULL if an operand is NULL
RatAdd(a, b) ==
    IF IsNull(a) \/ IsNull(b) THEN NullRate
    ELSE Rat(a[1] * b[2] + b[1] * a[2], a[2] * b[2])

\* a / b; SQLite yields NULL on division by zero
RatDiv(a, b) ==
    IF IsNull(a) \/ IsNull(b) \/ b[1] = 0 THEN NullRate
    ELSE Rat(a[1] * b[2], a[2] * b[1])

RatMulInt(k, a) == IF IsNull(a) THEN NullRate ELSE Rat(k * a[1], a[2])

\* a > 0 as a WHEN condition: NULL counts as false
RatPositive(a) == ~IsNull(a) /\ a[1] > 0

RatLess(a, b) == a[1] * b[2] < b[1] * a[2]
RatLeq(a, b) == a[1] * b[2] <= b[1] * a[2]

(***************************************************************************)
(* Text values holding numbers, and their conversions.                     *)
(***************************************************************************)
\* a TEXT value is a sequence of characters; 0..9 stand for the decimal digits
RECURSIVE DigitsToInt(_)
DigitsToInt(s) ==
    IF s = <<>> THEN 0
    ELSE 10 * DigitsToInt(SubSeq(s, 1, Len(s) - 1)) + s[Len(s)]

IsDigits(s) == s # <<>> /\ \A k \in 1..Len(s) : s[k] \in 0..9

\* str::parse::<i64>() on an unsigned decimal text: Some(n) or None
ParseI64(s) == IF IsDigits(s) THEN <<DigitsToInt(s)>> ELSE <<>>

\* CAST(x AS INTEGER) of a nullable TEXT: the leading digits, 0 when there are none
RECURSIVE LeadingDigits(_)
LeadingDigits(s) ==
    IF s = <<>> \/ s[1] \notin 0..9 THEN <<>>
    ELSE <<s[1]>> \o LeadingDigits(Tail(s))

CastInteger(x) == IF x = <<>> THEN <<>> ELSE <<DigitsToInt(LeadingDigits(x[1]))>>

\* json_extract(metadata, '$.key'): NULL when the object has no such key
JsonExtract(metadata, key) ==
    IF key \in DOMAIN metadata THEN <<metadata[key]>> ELSE <<>>

(***************************************************************************)
(* The clock and the Metric constructor (src/collectors/types.rs).         *)
(* `now` is the wall clock in microseconds.                                *)
(***************************************************************************)
\* DateTime::timestamp_millis
TimestampMillis(t) == t \div 1000

\* strftime('%s', 'now'): whole seconds
StrftimeSeconds(t) == t \div 1000000

\* Metric::new stamps the metric with the clock at construction
NewMetric(name, value, metadata) ==
    [name |-> name, value |-> value, timestamp |-> now, metadata |-> metadata]

\* MetricValue::Integer(v)
IntegerValue(v) == [type |-> "integer", v |-> v]

\* MetricValue::Float(v): a rational, or NaN
FloatValue(v) == [type |-> "float", v |-> v]

\* MetricValue::String(v)
StringValue(v) == [type |-> "string", v |-> v]

\* MetricValue::Boolean(v)
BooleanValue(v) == [type |-> "boolean", v |-> v]

(***************************************************************************)
(* The metrics table (src/storage/mod.rs). A row's rowid is its index.     *)
(***************************************************************************)
\* the row one INSERT of insert_metrics writes for a metric; the column of its value
\* type is set and the other value columns stay NULL; SQLite stores a NaN bound to a
\* REAL column as NULL
MetricRow(m) ==
    [name       |-> m.name,
     timestamp  |-> TimestampMillis(m.timestamp),
     value_type |-> m.value.type,
     value_int  |-> IF m.value.type = "integer" THEN <<m.value.v>> ELSE <<>>,
     value_float |-> IF m.value.type = "float" /\ ~IsNull(m.value.v)
                     THEN <<m.value.v>> ELSE <<>>,
     value_text |-> IF m.value.type = "string" THEN <<m.value.v>> ELSE <<>>,
     value_bool |-> IF m.value.type = "boolean"
                    THEN <<IF m.value.v THEN 1 ELSE 0>> ELSE <<>>,
     metadata   |-> m.metadata]

RECURSIVE InsertAll(_, _)
InsertAll(tbl, ms) ==
    IF ms = <<>> THEN tbl
    ELSE InsertAll(Append(tbl, MetricRow(Head(ms))), Tail(ms))

(***************************************************************************)
(* AppleSiliconCPU::execute: the window.                                   *)
(***************************************************************************)
TickNames == {"cpu_user_ticks", "cpu_system_ticks", "cpu_nice_ticks", "cpu_idle_ticks"}
ActiveNames == {"cpu_user_ticks", "cpu_system_ticks", "cpu_nice_ticks"}

DefaultWindowSeconds == 60

\* params.get("window_seconds").and_then(parse).unwrap_or(60)
WindowSeconds(params) ==
    IF "window_seconds" \notin DOMAIN params THEN DefaultWindowSeconds
    ELSE LET p == ParseI64(params["window_seconds"])
         IN  IF p = <<>> THEN DefaultWindowSeconds ELSE p[1]

\* strftime('%s', 'now') * 1000 - ?1 * 1000
WindowStart(t, w) == StrftimeSeconds(t) * 1000 - w * 1000

\* FROM metrics WHERE name IN (...) AND timestamp > window start: the rowids
WindowRows(tbl, t, w) ==
    {i \in DOMAIN tbl : tbl[i].name \in TickNames /\ tbl[i].timestamp > WindowStart(t, w)}

(***************************************************************************)
(* tick_windows: LAG(...) OVER (PARTITION BY name, core_id ORDER BY        *)
(* timestamp). Rows of one timestamp keep rowid order.                     *)
(***************************************************************************)
CoreIdOf(tbl, i) == JsonExtract(tbl[i].metadata, "core_id")

\* a window partitioned by the counter name alone
SamePartitionByName(tbl, i, j) == tbl[i].name = tbl[j].name

\* PARTITION BY name, json_extract(metadata, '$.core_id')
SamePartition(tbl, i, j) ==
    tbl[i].name = tbl[j].name /\ CoreIdOf(tbl, i) = CoreIdOf(tbl, j)

\* ORDER BY timestamp inside a partition
Before(tbl, j, i) ==
    \/ tbl[j].timestamp < tbl[i].timestamp
    \/ tbl[j].timestamp = tbl[i].timestamp /\ j < i

\* the row LAG reads for row i: the rowid just before i in its partition, 0 if none
LagRow(tbl, W, i) ==
    LET P == {j \in W : SamePartition(tbl, i, j) /\ Before(tbl, j, i)}
    IN  IF P = {} THEN 0
        ELSE CHOOSE j \in P : \A k \in P : k = j \/ Before(tbl, k, j)

TickWindows(tbl, t, w) ==
    LET W == WindowRows(tbl, t, w)
    IN  {LET lag == LagRow(tbl, W, i)
         IN  [rowid          |-> i,
              name           |-> tbl[i].name,
              timestamp      |-> tbl[i].timestamp,
              ticks          |-> tbl[i].value_int,
              core_id        |-> CoreIdOf(tbl, i),
              core_type      |-> JsonExtract(tbl[i].metadata, "core_type"),
              cluster_id     |-> JsonExtract(tbl[i].metadata, "cluster_id"),
              prev_rowid     |-> lag,
              prev_ticks     |-> IF lag = 0 THEN <<>> ELSE tbl[lag].value_int,
              prev_timestamp |-> IF lag = 0 THEN <<>> ELSE <<tbl[lag].timestamp>>] :
         i \in W}

(***************************************************************************)
(* tick_rates: the CASE expression and the WHERE prev_ticks IS NOT NULL.   *)
(***************************************************************************)
\* the guard with >= for >
ValidPairGeq(r) ==
    r.prev_ticks # <<>> /\ r.prev_timestamp # <<>> /\ r.timestamp >= r.prev_timestamp[1]

\* WHEN prev_ticks IS NOT NULL AND timestamp > prev_timestamp
ValidPair(r) ==
    r.prev_ticks # <<>> /\ r.prev_timestamp # <<>> /\ r.timestamp > r.prev_timestamp[1]

\* the rate per millisecond: the elapsed time not divided by 1000.0
TickRatePerMilli(r) ==
    IF r.prev_ticks # <<>> /\ r.prev_timestamp # <<>> /\ r.timestamp > r.prev_timestamp[1]
    THEN IF r.ticks = <<>> THEN NullRate
         ELSE RatDiv(Rat(r.ticks[1] - r.prev_ticks[1], 1),
                     Rat(r.timestamp - r.prev_timestamp[1], 1))
    ELSE NullRate

\* CAST((ticks - prev_ticks) AS REAL) / ((timestamp - prev_timestamp) / 1000.0)
TickRate(r) ==
    IF ValidPair(r)
    THEN IF r.ticks = <<>> THEN NullRate
         ELSE RatDiv(Rat(r.ticks[1] - r.prev_ticks[1], 1),
                     Rat(r.timestamp - r.prev_timestamp[1], 1000))
    ELSE NullRate

\* tick_rates of the per-core statement
TickRates(tbl, t, w) ==
    {[rowid      |-> r.rowid,
      prev_rowid |-> r.prev_rowid,
      name       |-> r.name,
      timestamp  |-> r.timestamp,
      core_id    |-> r.core_id,
      core_type  |-> r.core_type,
      cluster_id |-> r.cluster_id,
      tick_rate  |-> TickRate(r)] :
        r \in {x \in TickWindows(tbl, t, w) : x.prev_ticks # <<>>}}

(***************************************************************************)
(* Aggregates. SUM skips NULL and is NULL when no value is left; MAX of    *)
(* no row is NULL.                                                         *)
(***************************************************************************)
RECURSIVE SqlSumOver(_, _)
SqlSumOver(f, S) ==
    IF S = {} THEN NullRate
    ELSE LET x == CHOOSE y \in S : TRUE
             rest == SqlSumOver(f, S \ {x})
         IN  IF IsNull(f[x]) THEN rest
             ELSE IF IsNull(rest) THEN f[x]
             ELSE RatAdd(rest, f[x])

\* SUM(f) over the rows DOMAIN f
SqlSum(f) == SqlSumOver(f, DOMAIN f)

MaxOf(S) == CHOOSE x \in S : \A y \in S : y <= x

(***************************************************************************)
(* latest_rates: the rows at the latest timestamp of their core, grouped   *)
(* by core_id, core_type, cluster_id.                                      *)
(***************************************************************************)
\* (SELECT MAX(timestamp) FROM tick_rates t2 WHERE t2.core_id = tick_rates.core_id)
LatestTimestamp(R, r) ==
    LET S == {x.timestamp : x \in {y \in R : y.core_id # <<>> /\ r.core_id # <<>>
                                              /\ y.core_id = r.core_id}}
    IN  IF S = {} THEN <<>> ELSE <<MaxOf(S)>>

\* WHERE timestamp = (SELECT MAX(timestamp) ...)
LatestRows(R) ==
    {r \in R : LatestTimestamp(R, r) # <<>> /\ r.timestamp = LatestTimestamp(R, r)[1]}

GroupKey(r) == <<r.core_id, r.core_type, r.cluster_id>>

\* SUM(CASE WHEN name = n THEN tick_rate ELSE 0 END) over the rows G
SumOfName(G, n) ==
    SqlSum([r \in G |-> IF r.name = n THEN r.tick_rate ELSE ZeroRate])

LatestRates(tbl, t, w) ==
    LET L == LatestRows(TickRates(tbl, t, w))
    IN  {LET G == {r \in L : GroupKey(r) = k}
         IN  [core_id     |-> k[1],
              core_type   |-> k[2],
              cluster_id  |-> k[3],
              timestamp   |-> MaxOf({r.timestamp : r \in G}),
              user_rate   |-> SumOfName(G, "cpu_user_ticks"),
              system_rate |-> SumOfName(G, "cpu_system_ticks"),
              nice_rate   |-> SumOfName(G, "cpu_nice_ticks"),
              idle_rate   |-> SumOfName(G, "cpu_idle_ticks")] :
         k \in {GroupKey(r) : r \in L}}

(***************************************************************************)
(* The outer SELECT of the per-core statement.                             *)
(***************************************************************************)
\* the share of the idle rate instead of the active rate
UtilizationOfIdle(active, idle) ==
    IF RatPositive(RatAdd(active, idle))
    THEN RatDiv(RatMulInt(100, idle), RatAdd(active, idle))
    ELSE ZeroRate

\* CASE WHEN (A + I) > 0 THEN 100.0 * A / (A + I) ELSE 0 END
Utilization(active, idle) ==
    IF RatPositive(RatAdd(active, idle))
    THEN RatDiv(RatMulInt(100, active), RatAdd(active, idle))
    ELSE ZeroRate

CoreRateRow(l) ==
    LET active == RatAdd(RatAdd(l.user_rate, l.system_rate), l.nice_rate)
    IN  [core_id             |-> CastInteger(l.core_id),
         core_type           |-> l.core_type,
         cluster_id          |-> CastInteger(l.cluster_id),
         user_rate           |-> l.user_rate,
         system_rate         |-> l.system_rate,
         nice_rate           |-> l.nice_rate,
         idle_rate           |-> l.idle_rate,
         total_active_rate   |-> active,
         utilization_percent |-> Utilization(active, l.idle_rate)]

\* the key of the decimal text of the integer: "10" sorts before "2"
IntKeyByText(x) ==
    IF x = <<>> THEN -1
    ELSE IF x[1] < 10 THEN x[1] * 10 ELSE x[1]

\* an ORDER BY key of a nullable INTEGER: NULL sorts first
IntKey(x) == IF x = <<>> THEN -1 ELSE x[1]

\* the rows S as a sequence in ascending key order
RECURSIVE SortRows(_, _)
SortRows(S, key) ==
    IF S = {} THEN <<>>
    ELSE LET first == CHOOSE x \in S : \A y \in S : key[x] <= key[y]
         IN  <<first>> \o SortRows(S \ {first}, key)

\* ... FROM latest_rates ORDER BY core_id
CoreRatesQuery(tbl, t, w) ==
    LET S == {CoreRateRow(l) : l \in LatestRates(tbl, t, w)}
    IN  SortRows(S, [r \in S |-> IntKey(r.core_id)])

\* row.get(..)? of the CPURate mapping fails on a NULL column
CoreRowFails(r) ==
    \/ r.core_id = <<>> \/ r.core_type = <<>> \/ r.cluster_id = <<>>
    \/ IsNull(r.user_rate) \/ IsNull(r.system_rate) \/ IsNull(r.nice_rate)
    \/ IsNull(r.idle_rate) \/ IsNull(r.total_active_rate)
    \/ IsNull(r.utilization_percent)

CPURate(r) ==
    [core_id             |-> r.core_id[1],
     core_type           |-> r.core_type[1],
     cluster_id          |-> r.cluster_id[1],
     user_rate           |-> r.user_rate,
     system_rate         |-> r.system_rate,
     nice_rate           |-> r.nice_rate,
     idle_rate           |-> r.idle_rate,
     total_active_rate   |-> r.total_active_rate,
     utilization_percent |-> r.utilization_percent]

(***************************************************************************)
(* The cluster statement.                                                  *)
(***************************************************************************)
StateType(name) == IF name \in ActiveNames THEN "active" ELSE "idle"

\* tick_rates of the cluster statement
ClusterTickRates(tbl, t, w) ==
    {[rowid      |-> r.rowid,
      name       |-> r.name,
      core_type  |-> r.core_type,
      core_id    |-> r.core_id,
      tick_rate  |-> TickRate(r),
      state_type |-> StateType(r.name)] :
        r \in {x \in TickWindows(tbl, t, w) : x.prev_ticks # <<>>}}

\* core_aggregates: GROUP BY core_type, state_type
CoreAggregates(tbl, t, w) ==
    LET R == ClusterTickRates(tbl, t, w)
    IN  {LET G == {r \in R : <<r.core_type, r.state_type>> = k}
         IN  [core_type  |-> k[1],
              state_type |-> k[2],
              total_rate |-> SqlSum([r \in G |-> r.tick_rate]),
              core_count |-> Cardinality({r.core_id : r \in G} \ {<<>>})] :
         k \in {<<r.core_type, r.state_type>> : r \in R}}

\* SUM(CASE WHEN state_type = st THEN total_rate ELSE 0 END) over the rows G
SumOfState(G, st) ==
    SqlSum([a \in G |-> IF a.state_type = st THEN a.total_rate ELSE ZeroRate])

ClusterRow(G, core_type) ==
    [core_type          |-> core_type,
     core_count         |-> MaxOf({IF a.state_type = "active" THEN a.core_count ELSE 0 :
                                      a \in G}),
     avg_utilization    |-> IF RatPositive(SqlSum([a \in G |-> a.total_rate]))
                            THEN RatDiv(RatMulInt(100, SumOfState(G, "active")),
                                        SqlSum([a \in G |-> a.total_rate]))
                            ELSE ZeroRate,
     total_active_ticks |-> SumOfState(G, "active"),
     total_idle_ticks   |-> SumOfState(G, "idle")]

\* the binary collation of the core_type texts the model stores
Collation == <<"efficiency", "performance", "unknown">>

\* an ORDER BY key of a nullable TEXT: NULL sorts first
TextKey(x) ==
    IF x = <<>> THEN 0 ELSE CHOOSE k \in 1..Len(Collation) : Collation[k] = x[1]

\* ... FROM core_aggregates GROUP BY core_type
ClusterQuery(tbl, t, w) ==
    LET A == CoreAggregates(tbl, t, w)
        S == {ClusterRow({a \in A : a.core_type = ct}, ct) : ct \in {a.core_type : a \in A}}
    IN  SortRows(S, [r \in S |-> TextKey(r.core_type)])

\* row.get(..)? of the ClusterAggregate mapping fails on a NULL column
ClusterRowFails(r) ==
    \/ r.core_type = <<>>
    \/ IsNull(r.avg_utilization)
    \/ IsNull(r.total_active_ticks) \/ IsNull(r.total_idle_ticks)

ClusterAggregate(r) ==
    [core_type          |-> r.core_type[1],
     core_count         |-> r.core_count,
     avg_utilization    |-> r.avg_utilization,
     total_active_ticks |-> r.total_active_ticks,
     total_idle_ticks   |-> r.total_idle_ticks]

(***************************************************************************)
(* AppleSiliconCPU::execute as a whole: Ok(AggregationResult) or Err.      *)
(***************************************************************************)
NoResult ==
    [status |-> "none", per_core_rates |-> <<>>, cluster_aggregates |-> <<>>,
     window_seconds |-> 0]

\* no chart has been generated
NoChart == [chart_type |-> "none", chart_data |-> <<>>]

ErrResult(w) ==
    [status |-> "err", per_core_rates |-> <<>>, cluster_aggregates |-> <<>>,
     window_seconds |-> w]

ExecuteResult(tbl, t, params) ==
    LET w == WindowSeconds(params)
        cores == CoreRatesQuery(tbl, t, w)
        clusters == ClusterQuery(tbl, t, w)
    IN  IF \E k \in DOMAIN cores : CoreRowFails(cores[k]) THEN ErrResult(w)
        ELSE IF \E k \in DOMAIN clusters : ClusterRowFails(clusters[k]) THEN ErrResult(w)
        ELSE [status             |-> "ok",
              per_core_rates     |-> [k \in DOMAIN cores |-> CPURate(cores[k])],
              cluster_aggregates |-> [k \in DOMAIN clusters |-> ClusterAggregate(clusters[k])],
              window_seconds     |-> w]

(***************************************************************************)
(* Inputs of the model.                                                    *)
(***************************************************************************)
\* the clock advances in steps of half a second
TickMicros == 500 * 1000

\* metadata of the samples of one core, as the collector tags them
CoreMetadata(core, type) ==
    [core_id |-> core, core_type |-> type, cluster_id |-> core]

Core0 == CoreMetadata(<<0>>, "efficiency")
Core1 == CoreMetadata(<<1>>, "efficiency")

TickValues == {0, 1}

\* the order in which a sampling pass reports the counters of a core
NameOrder == <<"cpu_user_ticks", "cpu_system_ticks", "cpu_nice_ticks", "cpu_idle_ticks">>

\* Metric::new for each counter of N in turn, with the values vs and metadata md
RECURSIVE MetricsFrom(_, _, _, _)
MetricsFrom(k, N, vs, md) ==
    IF k > Len(NameOrder) THEN <<>>
    ELSE (IF NameOrder[k] \in N
          THEN <<NewMetric(NameOrder[k], IntegerValue(vs[NameOrder[k]]), md)>>
          ELSE <<>>) \o MetricsFrom(k + 1, N, vs, md)

\* one pass over some of the counters `names` of one of the cores `mds`
PassBatches(names, mds) ==
    {MetricsFrom(1, N, vs, md) :
        md \in mds, N \in SUBSET names \ {{}}, vs \in [names -> TickValues]}

\* one pass over all four counters of a core
RoundBatches(mds) ==
    {MetricsFrom(1, TickNames, vs, md) : md \in mds, vs \in [TickNames -> TickValues]}

\* Spec, SpecCore: the user and the idle counter are sampled
SampledNames == {"cpu_user_ticks", "cpu_idle_ticks"}

NoParams == <<>>

\* the params of a call: none, or window_seconds = "1"
ParamChoices == {NoParams, [window_seconds |-> <<1>>]}

(***************************************************************************)
(* The database of src/storage/sqlite.rs before any call.                  *)
(***************************************************************************)
\* the loops that call store_metrics, each on a connection of its own
Writers == {"cpu", "gpu"}

\* no connection holds the write lock
NoWriter == "none"

\* a connection with no store_metrics call in progress and none finished
IdleTx == [pc |-> "idle", id |-> 0, timestamp |-> 0, batch |-> <<>>, inserted |-> 0]

\* what a reader sees of an empty database
EmptyView == [collection_rounds |-> <<>>, stored_metrics |-> <<>>]

\* no call on the charts table has returned yet
NoOutcome == [op |-> "none"]

\* create_tables on a new database file
StoreInit ==
    /\ collection_rounds = <<>>
    /\ stored_metrics = <<>>
    /\ txs = [w \in Writers |-> IdleTx]
    /\ lock = NoWriter
    /\ issued = 0
    /\ seen = EmptyView
    /\ charts = <<>>
    /\ outcome = NoOutcome

(***************************************************************************)
(* The state machine.                                                      *)
(***************************************************************************)
Init ==
    /\ metrics = <<>>
    /\ now = 0
    /\ result = NoResult
    /\ values = <<>>
    /\ chart = NoChart
    /\ StoreInit

\* the clock advances
Tick ==
    /\ now < MaxSteps * TickMicros
    /\ now' = now + TickMicros
    /\ result' = NoResult
    /\ UNCHANGED <<metrics, chartVars, storeVars>>

\* Storage::insert_metrics(&batch): one transaction, one INSERT per metric
InsertMetrics(batch) ==
    /\ metrics' = InsertAll(metrics, batch)
    /\ result' = NoResult
    /\ UNCHANGED <<now, chartVars, storeVars>>

\* AppleSiliconCPU::execute(conn, params)
Execute(params) ==
    /\ result' = ExecuteResult(metrics, now, params)
    /\ UNCHANGED <<metrics, now, chartVars, storeVars>>

\* two cores report passes over their user and idle counters
Next ==
    \/ Tick
    \/ \E batch \in PassBatches(SampledNames, {Core0, Core1}) :
          Len(metrics) + Len(batch) <= MaxRows /\ InsertMetrics(batch)
    \/ \E params \in ParamChoices : Execute(params)

Spec == Init /\ [][Next]_vars

\* one core reports passes over its user and idle counters
NextCore ==
    \/ Tick
    \/ \E batch \in PassBatches(SampledNames, {Core0}) :
          Len(metrics) + Len(batch) <= MaxCoreRows /\ InsertMetrics(batch)
    \/ \E params \in ParamChoices : Execute(params)

SpecCore == Init /\ [][NextCore]_vars

\* the counters read in the batch have not run backwards since their stored samples
NoReset(batch) ==
    \A k \in DOMAIN batch : \A i \in DOMAIN metrics :
        (metrics[i].name = batch[k].name /\ metrics[i].metadata = batch[k].metadata)
            => metrics[i].value_int[1] <= batch[k].value.v

\* one core reports full rounds of its four counters, which never reset
NextRounds ==
    \/ Tick
    \/ \E batch \in RoundBatches({Core0}) :
          /\ Len(metrics) + Len(batch) <= 4 * MaxRounds
          /\ NoReset(batch)
          /\ InsertMetrics(batch)
    \/ \E params \in ParamChoices : Execute(params)

SpecRounds == Init /\ [][NextRounds]_vars

(***************************************************************************)
(* Properties. They are stated over the stored samples themselves: a       *)
(* partition is the set of window samples of one counter name and one      *)
(* core, a pair is two samples of a partition adjacent in time.            *)
(***************************************************************************)
\* the last step was an execute call: metrics and now are what it read
Executed == result.status # "none"
Succeeded == result.status = "ok"

Rows == DOMAIN metrics
Ts(i) == metrics[i].timestamp
Val(i) == metrics[i].value_int[1]
NameAt(i) == metrics[i].name
CoreAt(i) == metrics[i].metadata.core_id
CoreNumAt(i) == DigitsToInt(CoreAt(i))
TypeAt(i) == metrics[i].metadata.core_type

\* sample i lies inside the trailing window of the call
InWindow(i) ==
    /\ NameAt(i) \in TickNames
    /\ Ts(i) > ((now \div 1000000) - result.window_seconds) * 1000

\* the window samples of counter n of core c
Partition(n, c) == {i \in Rows : InWindow(i) /\ NameAt(i) = n /\ CoreAt(i) = c}

Cores == {CoreAt(i) : i \in Rows}

\* time order of the samples, samples of one timestamp in storage order
Earlier(i, j) == Ts(i) < Ts(j) \/ (Ts(i) = Ts(j) /\ i < j)

\* i and j are consecutive-in-time samples of one partition
Adjacent(i, j) ==
    /\ InWindow(i) /\ InWindow(j)
    /\ NameAt(i) = NameAt(j) /\ CoreAt(i) = CoreAt(j)
    /\ Earlier(i, j)
    /\ ~\E k \in Partition(NameAt(i), CoreAt(i)) : Earlier(i, k) /\ Earlier(k, j)

Pairs == {p \in Rows \X Rows : Adjacent(p[1], p[2])}

\* (v2 - v1) / ((t2 - t1) / 1000) of a pair with t2 > t1
PairRate(i, j) == Rat((Val(j) - Val(i)) * 1000, Ts(j) - Ts(i))

RECURSIVE SumPairRates(_)
SumPairRates(S) ==
    IF S = {} THEN ZeroRate
    ELSE LET p == CHOOSE q \in S : TRUE
         IN  RatAdd(PairRate(p[1], p[2]), SumPairRates(S \ {p}))

\* the rate a per_core_rates entry reports for counter n
RateOf(row, n) ==
    CASE n = "cpu_user_ticks"   -> row.user_rate
      [] n = "cpu_system_ticks" -> row.system_rate
      [] n = "cpu_nice_ticks"   -> row.nice_rate
      [] n = "cpu_idle_ticks"   -> row.idle_rate

CoreRows == {result.per_core_rates[k] : k \in DOMAIN result.per_core_rates}
ClusterRows == {result.cluster_aggregates[k] : k \in DOMAIN result.cluster_aggregates}

\* C1: for every two consecutive-in-time samples (v1,t1),(v2,t2) of one partition
\* inside the window with v2 >= v1 and t2 > t1, the rate the engine computes for the
\* pair is (v2 - v1) / ((t2 - t1) / 1000) per second; 8500 -> 8850 between 1000 ms
\* and 1100 ms gives 3500.
C1_RateOfPair ==
    /\ Executed =>
         \A p \in Pairs :
            (Ts(p[2]) > Ts(p[1]) /\ Val(p[2]) >= Val(p[1])) =>
                \E r \in TickRates(metrics, now, result.window_seconds) :
                    /\ r.rowid = p[2]
                    /\ r.tick_rate = PairRate(p[1], p[2])
    /\ TickRate([ticks |-> <<8850>>, prev_ticks |-> <<8500>>,
                 timestamp |-> 1100, prev_timestamp |-> <<1000>>]) = <<3500, 1>>

\* a call that reported the rate of an increasing pair, with a sample left outside
\* the window
C1_Witness ==
    /\ Succeeded
    /\ \E i \in Rows : NameAt(i) \in TickNames /\ ~InWindow(i)
    /\ \E p \in Pairs :
          /\ Ts(p[2]) > Ts(p[1]) /\ Val(p[2]) > Val(p[1])
          /\ \E row \in CoreRows : RateOf(row, NameAt(p[2])) = PairRate(p[1], p[2])

\* every reported rate and sum, as a set
ReportedRates ==
    UNION {{row.user_rate, row.system_rate, row.nice_rate, row.idle_rate,
            row.total_active_rate} : row \in CoreRows}
    \cup UNION {{a.total_active_ticks, a.total_idle_ticks} : a \in ClusterRows}

\* no pair of the window runs backwards
NoDecrease == \A p \in Pairs : Val(p[2]) >= Val(p[1])

\* C2: a pair with value[t] - value[t-1] < 0 is skipped and no negative rate is ever
\* emitted: every rate of per_core_rates and every total of cluster_aggregates is >= 0.
C2_NoNegativeRate ==
    Succeeded => \A r \in ReportedRates : r[1] >= 0

\* the pairs of a partition that can be differenced: later timestamp, no decrease
ValidPairsOf(n, c) ==
    {p \in Pairs : /\ NameAt(p[1]) = n /\ CoreAt(p[1]) = c
                   /\ Ts(p[2]) > Ts(p[1]) /\ Val(p[2]) >= Val(p[1])}

\* the most recent pair of a non-empty set of pairs of one partition
MostRecent(S) == CHOOSE p \in S : \A q \in S : q = p \/ Earlier(q[2], p[2])

\* C3: each of user_rate, system_rate, nice_rate and idle_rate of a core is the rate of
\* the most recent valid pair of that counter's own partition, also when the latest
\* samples of the core's counters carry different timestamps. Stated for windows in
\* which no counter runs backwards.
C3_OwnLatestRate ==
    (Succeeded /\ NoDecrease) =>
        \A row \in CoreRows : \A n \in TickNames : \A c \in Cores :
            (DigitsToInt(c) = row.core_id /\ ValidPairsOf(n, c) # {}) =>
                LET p == MostRecent(ValidPairsOf(n, c))
                IN  RateOf(row, n) = PairRate(p[1], p[2])

\* the sum of f over the per_core_rates entries S
RECURSIVE SumOverRows(_, _)
SumOverRows(S, f) ==
    IF S = {} THEN ZeroRate
    ELSE LET x == CHOOSE y \in S : TRUE
         IN  RatAdd(f[x], SumOverRows(S \ {x}, f))

\* C4: total_active_ticks of a core type is the sum of the user+system+nice rates of
\* its cores and total_idle_ticks the sum of their idle rates, one (the most recent)
\* rate per partition: the aggregate agrees with summing the per_core_rates entries
\* of that type. Stated for windows in which no counter runs backwards.
C4_ClusterSumsLatestRates ==
    (Succeeded /\ NoDecrease) =>
        \A a \in ClusterRows :
            LET S == {row \in CoreRows : row.core_type = a.core_type}
            IN  /\ a.total_active_ticks = SumOverRows(S, [row \in S |-> row.total_active_rate])
                /\ a.total_idle_ticks = SumOverRows(S, [row \in S |-> row.idle_rate])

\* u is 100 * A / (A + I) when A + I > 0 and 0 otherwise, by cross-multiplication
IsUtilizationOf(u, A, I) ==
    LET sn == A[1] * I[2] + I[1] * A[2]
        sd == A[2] * I[2]
    IN  IF sn > 0 THEN u[1] * sn * A[2] = 100 * A[1] * sd * u[2]
        ELSE u[1] = 0

\* the timestamps at which the window holds samples of core c
InstantsOf(c) == {Ts(i) : i \in {j \in Rows : InWindow(j) /\ CoreAt(j) = c}}

\* the four counters of core c are sampled at the same two instants, once each
SampledTwice(c) ==
    /\ Cardinality(InstantsOf(c)) = 2
    /\ \A n \in TickNames : \A t \in InstantsOf(c) :
          Cardinality({i \in Partition(n, c) : Ts(i) = t}) = 1

\* the tick delta of counter n of a core sampled twice
Delta(n, c) ==
    LET p == CHOOSE q \in Pairs : NameAt(q[1]) = n /\ CoreAt(q[1]) = c
    IN  Val(p[2]) - Val(p[1])

ActiveDelta(c) ==
    Delta("cpu_user_ticks", c) + Delta("cpu_system_ticks", c) + Delta("cpu_nice_ticks", c)

\* C5: utilization is 100*A/(A+I) when A+I > 0 and 0 otherwise, A the active
\* (user+system+nice) and I the idle rate of the same core or class; hence for a core
\* whose four counters are sampled at the same two instants it is
\* 100*(d_user+d_system+d_nice)/(d_user+d_system+d_nice+d_idle) of the tick deltas
\* whatever the interval (deltas 100, 50, 0, 350 give 30).
C5_Utilization ==
    /\ Succeeded =>
        /\ \A row \in CoreRows :
              /\ row.total_active_rate =
                    RatAdd(RatAdd(row.user_rate, row.system_rate), row.nice_rate)
              /\ IsUtilizationOf(row.utilization_percent, row.total_active_rate,
                                 row.idle_rate)
        /\ \A a \in ClusterRows :
              IsUtilizationOf(a.avg_utilization, a.total_active_ticks, a.total_idle_ticks)
        /\ \A row \in CoreRows : \A c \in Cores :
              (DigitsToInt(c) = row.core_id /\ SampledTwice(c)) =>
                  LET total == ActiveDelta(c) + Delta("cpu_idle_ticks", c)
                  IN  IF total > 0
                      THEN row.utilization_percent = Rat(100 * ActiveDelta(c), total)
                      ELSE row.utilization_percent = ZeroRate
    /\ \A dt \in {100, 5000} :
          Utilization(Rat((100 + 50 + 0) * 1000, dt), Rat(350 * 1000, dt)) = <<30, 1>>

\* a core sampled at two instants in the window whose utilization lies strictly
\* between 0 and 100, with nonzero deltas of an active and of the idle counter
C5_Witness ==
    /\ Succeeded
    /\ \E row \in CoreRows : \E c \in Cores :
          /\ DigitsToInt(c) = row.core_id
          /\ SampledTwice(c)
          /\ Delta("cpu_nice_ticks", c) > 0
          /\ Delta("cpu_idle_ticks", c) > 0
          /\ row.utilization_percent[1] > 0
          /\ RatLess(row.utilization_percent, <<100, 1>>)

\* C6: every utilization reported lies in [0,100], and is 0 when active + idle is 0.
C6_UtilizationBounded ==
    Succeeded =>
        /\ \A row \in CoreRows :
              /\ row.utilization_percent[1] >= 0
              /\ RatLeq(row.utilization_percent, <<100, 1>>)
              /\ RatAdd(row.total_active_rate, row.idle_rate) = ZeroRate
                    => row.utilization_percent = ZeroRate
        /\ \A a \in ClusterRows :
              /\ a.avg_utilization[1] >= 0
              /\ RatLeq(a.avg_utilization, <<100, 1>>)
              /\ RatAdd(a.total_active_ticks, a.total_idle_ticks) = ZeroRate
                    => a.avg_utilization = ZeroRate

\* C7: a partition with fewer than two samples in the window yields no rate: the
\* output holds no rate for it, not a rate of zero. An entry of per_core_rates holds
\* a rate for each counter of its core, so the core of a partition with a single
\* sample in the window has no entry.
C7_NoRateUnderTwoSamples ==
    (Succeeded /\ NoDecrease) =>
        \A row \in CoreRows : \A n \in TickNames : \A c \in Cores :
            DigitsToInt(c) = row.core_id => Cardinality(Partition(n, c)) # 1

\* the pairs of a partition whose samples carry different timestamps
UntiedPairs(n, c) ==
    {p \in Pairs : NameAt(p[1]) = n /\ CoreAt(p[1]) = c /\ Ts(p[2]) > Ts(p[1])}

\* the latest timestamp of a window sample of core c that has a predecessor
LatestOf(c) ==
    MaxOf({Ts(p[2]) : p \in {q \in Pairs : CoreAt(q[1]) = c}})

\* every per-core rate is the sum of the rates of the untied pairs of its own
\* partition that end at the latest timestamp of the core
RatesFromOwnPairs ==
    \A row \in CoreRows : \A n \in TickNames : \A c \in Cores :
        DigitsToInt(c) = row.core_id =>
            RateOf(row, n) =
                SumPairRates({p \in UntiedPairs(n, c) : Ts(p[2]) = LatestOf(c)})

\* the untied pairs of the counters N of the cores of one core type
UntiedPairsOfType(N, type) ==
    {p \in Pairs : NameAt(p[1]) \in N /\ TypeAt(p[1]) = type /\ Ts(p[2]) > Ts(p[1])}

\* C8: a consecutive pair of one partition whose samples share a timestamp is
\* skipped: the guard of the division rejects it, its rate is NULL, and every
\* per-core rate and every cluster sum is a sum over the untied pairs alone.
C8_TiedPairSkipped ==
    Executed =>
        /\ \A r \in TickWindows(metrics, now, result.window_seconds) :
              r.prev_timestamp = <<r.timestamp>> => ~ValidPair(r) /\ IsNull(TickRate(r))
        /\ Succeeded =>
              /\ RatesFromOwnPairs
              /\ \A a \in ClusterRows :
                    /\ a.total_active_ticks =
                          SumPairRates(UntiedPairsOfType(ActiveNames, a.core_type))
                    /\ a.total_idle_ticks =
                          SumPairRates(UntiedPairsOfType({"cpu_idle_ticks"}, a.core_type))

\* a successful call over a window holding a tied pair and a pair of nonzero rate
C8_Witness ==
    /\ Succeeded
    /\ \E p \in Pairs : Ts(p[2]) = Ts(p[1])
    /\ \E row \in CoreRows : row.user_rate[1] > 0
    /\ \E a \in ClusterRows : a.total_active_ticks[1] > 0

\* every consecutive pair of the partition is invalid, and there is one
AllPairsInvalid(n, c) ==
    LET P == {p \in Pairs : NameAt(p[1]) = n /\ CoreAt(p[1]) = c}
    IN  /\ P # {}
        /\ \A p \in P : Ts(p[2]) = Ts(p[1]) \/ Val(p[2]) < Val(p[1])

\* C9: a partition all of whose consecutive pairs in the window are invalid
\* (negative delta or identical timestamps) yields no rate: the call succeeds and
\* the output holds no entry reporting a rate for it.
C9_AllInvalidYieldsNoRate ==
    Executed =>
        \A n \in TickNames : \A c \in Cores :
            AllPairsInvalid(n, c) =>
                /\ Succeeded
                /\ \A row \in CoreRows : DigitsToInt(c) # row.core_id

\* C10: every difference is taken between two samples of the same counter name and
\* the same core_id, however the samples of several cores and counters interleave
\* in the store: the predecessor LAG reads is a sample of the row's own partition,
\* and every rate reported is made of pairs of its own partition.
C10_SamePartitionDifferences ==
    Executed =>
        /\ \A r \in TickWindows(metrics, now, result.window_seconds) :
              r.prev_rowid # 0 =>
                  /\ NameAt(r.prev_rowid) = r.name
                  /\ <<CoreAt(r.prev_rowid)>> = r.core_id
                  /\ r.prev_ticks = metrics[r.prev_rowid].value_int
                  /\ r.prev_timestamp = <<Ts(r.prev_rowid)>>
        /\ Succeeded => RatesFromOwnPairs

\* a successful call over a store in which a sample of the same counter of another
\* core, with another value, lies between the two samples of a differenced pair
C10_Witness ==
    /\ Succeeded
    /\ \E p \in Pairs : \E k \in Rows :
          /\ Ts(p[2]) > Ts(p[1])
          /\ p[1] < k /\ k < p[2]
          /\ InWindow(k)
          /\ NameAt(k) = NameAt(p[1])
          /\ CoreAt(k) # CoreAt(p[1])
          /\ Val(k) # Val(p[1])
          /\ \E row \in CoreRows :
                /\ row.core_id = CoreNumAt(p[2])
                /\ RateOf(row, NameAt(p[2])) = PairRate(p[1], p[2])

(***************************************************************************)
(* The trailing window against a clock finer than a second.                *)
(***************************************************************************)
\* rows the metrics table may hold (SpecWindow)
MaxWindowRows == 3
\* steps the clock takes (SpecWindow)
MaxWindowSteps == 3

\* the clock advances past the point at which Tick stops
TickOn ==
    /\ now < MaxWindowSteps * TickMicros
    /\ now' = now + TickMicros
    /\ result' = NoResult
    /\ UNCHANGED <<metrics, chartVars, storeVars>>

\* one core reports its user counter while the clock runs for more than a second
NextWindow ==
    \/ TickOn
    \/ \E batch \in PassBatches({"cpu_user_ticks"}, {Core0}) :
          Len(metrics) + Len(batch) <= MaxWindowRows /\ InsertMetrics(batch)
    \/ \E params \in ParamChoices : Execute(params)

SpecWindow == Init /\ [][NextWindow]_vars

\* the instant of the call in milliseconds, the unit of the stored timestamps
NowMillis == TimestampMillis(now)

\* sample i is later than now - window_seconds
AfterWindowStart(i) == Ts(i) > NowMillis - result.window_seconds * 1000

\* C11: only samples inside the trailing window from now - window_seconds to now are
\* differenced: neither sample of a pair that yields a rate has a timestamp at or
\* before now - window_seconds; and without a window_seconds parameter the window is
\* 60 seconds, the value the result reports.
C11_TrailingWindow ==
    /\ Executed =>
          \A r \in TickRates(metrics, now, result.window_seconds) :
              ~IsNull(r.tick_rate) =>
                  AfterWindowStart(r.rowid) /\ AfterWindowStart(r.prev_rowid)
    /\ ExecuteResult(metrics, now, NoParams).window_seconds = 60

\* the cores of a type that contribute a rate to the active sum: those with a pair
\* of an active counter that can be differenced
ActiveContributors(type) ==
    {CoreAt(p[1]) : p \in {q \in Pairs : /\ TypeAt(q[1]) = type
                                         /\ NameAt(q[1]) \in ActiveNames
                                         /\ Ts(q[2]) > Ts(q[1])
                                         /\ Val(q[2]) >= Val(q[1])}}

\* C12: core_count of a core type is the number of distinct cores of that type that
\* contribute a rate to the active (user/system/nice) sum; a core that contributes
\* only idle rates, or whose active pairs are all skipped as invalid, is not counted.
\* Stated for windows in which no counter runs backwards.
C12_CoreCount ==
    (Succeeded /\ NoDecrease) =>
        \A a \in ClusterRows : a.core_count = Cardinality(ActiveContributors(a.core_type))

(***************************************************************************)
(* Cores of two types whose ids differ in their number of digits.          *)
(***************************************************************************)
\* rows the metrics table may hold (SpecOrder)
MaxOrderRows == 4

Core2 == CoreMetadata(<<2>>, "efficiency")
Core10 == CoreMetadata(<<1, 0>>, "performance")

\* core 2 and core 10 report their user counter
NextOrder ==
    \/ Tick
    \/ \E batch \in PassBatches({"cpu_user_ticks"}, {Core2, Core10}) :
          Len(metrics) + Len(batch) <= MaxOrderRows /\ InsertMetrics(batch)
    \/ Execute(NoParams)

SpecOrder == Init /\ [][NextOrder]_vars

\* the order of the core_type texts
TypeRank == [efficiency |-> 1, performance |-> 2, unknown |-> 3]

MaxUntypedRows == 3

\* metadata with core_id and cluster_id but no core_type
CoreUntyped == [core_id |-> <<1>>, cluster_id |-> <<1>>]

\* core 0 and a core without core_type report their user counter
NextUntyped ==
    \/ Tick
    \/ \E batch \in PassBatches({"cpu_user_ticks"}, {Core0, CoreUntyped}) :
          Len(metrics) + Len(batch) <= MaxUntypedRows /\ InsertMetrics(batch)
    \/ \E params \in ParamChoices : Execute(params)

SpecUntyped == Init /\ [][NextUntyped]_vars

\* the samples of core c carry no core_type
Untyped(c) ==
    \A i \in Rows : CoreAt(i) = c => "core_type" \notin DOMAIN metrics[i].metadata

\* C14: a core whose metadata lacks core_type does not make the call fail: when the
\* window holds a pair of it that can be differenced, the call succeeds, the core
\* appears in per_core_rates under the classification "unknown", and no cluster
\* aggregate is made of it.
C14_UntypedCoreReported ==
    Executed =>
        \A c \in Cores :
            (Untyped(c) /\ ValidPairsOf("cpu_user_ticks", c) # {}) =>
                /\ Succeeded
                /\ \E row \in CoreRows :
                      row.core_id = DigitsToInt(c) /\ row.core_type = "unknown"
                /\ \A a \in ClusterRows : a.core_type = "efficiency"

(***************************************************************************)
(* The chart encoders (src/storage/sqlite.rs).                             *)
(***************************************************************************)
\* values an encoder may be handed
MaxValues == 4

RatMax(a, b) == IF RatLess(a, b) THEN b ELSE a
RatMin(a, b) == IF RatLess(b, a) THEN b ELSE a

Hundred == <<100, 1>>

\* value.max(0.0).min(100.0)
Clamp(value) == RatMin(RatMax(value, ZeroRate), Hundred)

\* let bar_chars = [" ", "▁", "▂", "▃", "▄", "▅", "▆", "▇", "█"]
bar_chars == <<32, 9601, 9602, 9603, 9604, 9605, 9606, 9607, 9608>>

\* the index without the step up: floor(clamped / 100 * 8)
BarIndexFloor(value) ==
    LET clamped == Clamp(value)
    IN  IF clamped[1] = 0 THEN 0
        ELSE LET i == (clamped[1] * 8) \div (clamped[2] * 100)
             IN  IF i < 8 THEN i ELSE 8

\* if clamped == 0.0 { 0 } else { ((clamped / 100.0 * 8.0).floor() as usize + 1).min(8) }
BarIndex(value) ==
    LET clamped == Clamp(value)
    IN  IF clamped[1] = 0 THEN 0
        ELSE LET i == (clamped[1] * 8) \div (clamped[2] * 100) + 1
             IN  IF i < 8 THEN i ELSE 8

RECURSIVE SumValues(_)
SumValues(vals) ==
    IF vals = <<>> THEN ZeroRate ELSE RatAdd(Head(vals), SumValues(Tail(vals)))

\* values.iter().sum::<f64>() / values.len() as f64; 0.0 / 0.0 is NaN
Average(vals) ==
    IF vals = <<>> THEN NullRate ELSE RatDiv(SumValues(vals), <<Len(vals), 1>>)

\* the fraction cut off instead of rounded
RoundTowardZero(a) == a[1] \div a[2]

\* the integer nearest to the rational a >= 0, a tie going to the even one
RoundHalfEven(a) ==
    LET q == a[1] \div a[2]
        twice == 2 * (a[1] % a[2])
    IN  IF twice > a[2] THEN q + 1
        ELSE IF twice < a[2] THEN q
        ELSE IF q % 2 = 0 THEN q ELSE q + 1

\* the decimal digits of n >= 0 as characters
RECURSIVE DecimalText(_)
DecimalText(n) ==
    IF n < 10 THEN <<48 + n>> ELSE DecimalText(n \div 10) \o <<48 + (n % 10)>>

\* {:.0} of an f64: "NaN", or the sign and the rounded magnitude
FormatRounded(a) ==
    IF IsNull(a) THEN <<78, 97, 78>>
    ELSE (IF a[1] < 0 THEN <<45>> ELSE <<>>)
            \o DecimalText(RoundHalfEven(<<Abs(a[1]), a[2]>>))

\* {:>w}: right-aligned in a field of w characters
RECURSIVE PadLeft(_, _)
PadLeft(text, w) == IF Len(text) >= w THEN text ELSE PadLeft(<<32>> \o text, w)

\* format!("..{:>2.0}%", avg_util)
Percentage(avg_util) == <<46, 46>> \o PadLeft(FormatRounded(avg_util), 2) \o <<37>>

\* SqliteStorage::generate_bar_chart
generate_bar_chart(vals) ==
    LET glyphs == [k \in 1..Len(vals) |-> bar_chars[BarIndex(vals[k]) + 1]]
    IN  glyphs \o Percentage(Average(vals)) \o <<124>>

\* the thresholds with < for <=
BrailleLevelStrict(percentage) ==
    LET clamped == Clamp(percentage)
    IN  IF clamped[1] = 0 THEN 0
        ELSE IF RatLess(clamped, <<25, 1>>) THEN 1
        ELSE IF RatLess(clamped, <<50, 1>>) THEN 2
        ELSE IF RatLess(clamped, <<75, 1>>) THEN 3
        ELSE 4

\* SqliteStorage::percentage_to_braille_level
percentage_to_braille_level(percentage) ==
    LET clamped == Clamp(percentage)
    IN  IF clamped[1] = 0 THEN 0
        ELSE IF RatLeq(clamped, <<25, 1>>) THEN 1
        ELSE IF RatLeq(clamped, <<50, 1>>) THEN 2
        ELSE IF RatLeq(clamped, <<75, 1>>) THEN 3
        ELSE 4

\* the match arms of get_braille_char: row left + 1, column right + 1
BrailleTable ==
    << <<32,    10368, 10400, 10416, 10424>>,
       <<10432, 10432, 10464, 10480, 10488>>,
       <<10436, 10436, 10468, 10484, 10492>>,
       <<10438, 10438, 10470, 10486, 10494>>,
       <<10439, 10439, 10471, 10487, 10495>> >>

\* SqliteStorage::get_braille_char; the arm _ yields the full cell
get_braille_char(left, right) ==
    IF left \in 0..4 /\ right \in 0..4 THEN BrailleTable[left + 1][right + 1]
    ELSE BrailleTable[5][5]

\* values.chunks_exact(2): an unpaired final value is dropped
ChunksExact(vals) ==
    [k \in 1..(Len(vals) \div 2) |-> <<vals[2 * k - 1], vals[2 * k]>>]

\* values.chunks(2) with chunk.get(1).copied().unwrap_or(0.0)
Chunks(vals) ==
    [k \in 1..((Len(vals) + 1) \div 2) |->
        <<vals[2 * k - 1], IF 2 * k <= Len(vals) THEN vals[2 * k] ELSE ZeroRate>>]

\* the glyph pushed for one chunk
BrailleGlyph(left, right) ==
    IF left[1] = 0 /\ right[1] = 0 THEN 32
    ELSE get_braille_char(percentage_to_braille_level(left),
                          percentage_to_braille_level(right))

\* SqliteStorage::generate_braille_chart
generate_braille_chart(vals) ==
    LET chunks == Chunks(vals)
        glyphs == [k \in DOMAIN chunks |-> BrailleGlyph(chunks[k][1], chunks[k][2])]
    IN  glyphs \o Percentage(Average(vals)) \o <<124>>

\* percentages the encoders are handed: below 0, 0, the thresholds, above 100
PercentValues ==
    {Rat(-5, 1), ZeroRate, Rat(1, 2), Rat(25, 2), Rat(25, 1), Rat(50, 1), Rat(75, 1),
     Hundred, Rat(150, 1)}

ChartInputs == UNION {[1..n -> PercentValues] : n \in 0..MaxValues}

InitChart ==
    /\ metrics = <<>>
    /\ now = 0
    /\ result = NoResult
    /\ values \in ChartInputs
    /\ chart = NoChart
    /\ StoreInit

GenerateBarChart ==
    /\ chart' = [chart_type |-> "bar", chart_data |-> generate_bar_chart(values)]
    /\ UNCHANGED <<metrics, now, result, values, storeVars>>

GenerateBrailleChart ==
    /\ chart' = [chart_type |-> "braille", chart_data |-> generate_braille_chart(values)]
    /\ UNCHANGED <<metrics, now, result, values, storeVars>>

NextChart == GenerateBarChart \/ GenerateBrailleChart

SpecChart == InitChart /\ [][NextChart]_vars

(***************************************************************************)
(* Properties of the chart encoders.                                       *)
(***************************************************************************)
BarGenerated == chart.chart_type = "bar"
BrailleGenerated == chart.chart_type = "braille"

\* the palette index of a bar glyph
GlyphIndex(g) == CHOOSE i \in 0..8 : bar_chars[i + 1] = g

\* i is min(8, floor(c / 100 * 8) + 1) for the rational c > 0
IsStepOf(i, c) ==
    /\ i \in 1..8
    /\ (i - 1) * 100 * c[2] <= 8 * c[1]
    /\ i < 8 => 8 * c[1] < i * 100 * c[2]

\* C15: the bar chart holds one glyph per input value, in input order, from a
\* palette of 9 distinct glyphs indexed 0..8: the glyph of a value is that of index 0
\* when the value clamped to [0,100] is 0 and that of index
\* min(8, floor(v / 100 * 8) + 1) otherwise; so a value below 0 gets the empty glyph,
\* a value above 100 the full glyph and a positive value an index of at least 1.
C15_BarGlyphs ==
    /\ Len(bar_chars) = 9
    /\ \A i, j \in 1..9 : bar_chars[i] = bar_chars[j] => i = j
    /\ BarGenerated =>
          \A k \in 1..Len(values) :
              LET v == values[k]
                  g == chart.chart_data[k]
              IN  /\ g \in {bar_chars[i] : i \in 1..9}
                  /\ v[1] <= 0 => GlyphIndex(g) = 0
                  /\ (v[1] > 0 /\ RatLeq(v, Hundred)) => IsStepOf(GlyphIndex(g), v)
                  /\ RatLess(Hundred, v) => GlyphIndex(g) = 8
                  /\ v[1] > 0 => GlyphIndex(g) >= 1

\* a bar chart of a negative value, a value above 100 and values in between, among
\* them one below an eighth
C15_Witness ==
    /\ BarGenerated
    /\ Len(values) = 4
    /\ values[1] = Rat(150, 1)
    /\ values[2] = Rat(-5, 1)
    /\ values[3] = Rat(1, 2)
    /\ values[4] = Rat(75, 1)
    /\ GlyphIndex(chart.chart_data[3]) = 1
    /\ GlyphIndex(chart.chart_data[4]) = 7

\* the input of the scenario: 0, 12.5, 50, 100
ScenarioValues == <<ZeroRate, Rat(25, 2), Rat(50, 1), Hundred>>

\* the palette indices of the first n glyphs of the chart
GlyphIndices(n) == [k \in 1..n |-> GlyphIndex(chart.chart_data[k])]

\* the characters of the chart after its first n glyphs
AfterGlyphs(n) == SubSeq(chart.chart_data, n + 1, Len(chart.chart_data))

\* C16 as stated: bar-encoding [0, 12.5, 50, 100] produces the glyph indices
\* [0, 1, 4, 8] followed by the annotation "..41%".
C16_BarScenario ==
    (BarGenerated /\ values = ScenarioValues) =>
        /\ GlyphIndices(4) = <<0, 1, 4, 8>>
        /\ SubSeq(chart.chart_data, 5, 9) = <<46, 46, 52, 49, 37>>

\* C16 as amended: bar-encoding [0, 12.5, 50, 100] produces the glyph indices
\* [0, 2, 5, 8] followed by the annotation "..41%" and the delimiter "|".
C16_BarScenarioAmended ==
    (BarGenerated /\ values = ScenarioValues) =>
        /\ GlyphIndices(4) = <<0, 2, 5, 8>>
        /\ AfterGlyphs(4) = <<46, 46, 52, 49, 37, 124>>

\* the scenario's input has been bar-encoded
C16_Witness == BarGenerated /\ values = ScenarioValues /\ Len(chart.chart_data) = 10

\* the level of a percentage: 0 for 0 and below, 1 for (0,25], 2 for (25,50],
\* 3 for (50,75], 4 above 75
LevelOf(v) ==
    IF v[1] <= 0 THEN 0
    ELSE IF v[1] <= 25 * v[2] THEN 1
    ELSE IF v[1] <= 50 * v[2] THEN 2
    ELSE IF v[1] <= 75 * v[2] THEN 3
    ELSE 4

\* the glyphs of the 8-dot braille block, U+2800 .. U+28FF
BrailleBlock == 10240..10495

\* the right-hand value of the k-th pair of the input: 0 when the input ends before it
RightOf(k) == IF 2 * k <= Len(values) THEN values[2 * k] ELSE ZeroRate

\* C17: the braille chart consumes the input in consecutive (left, right) pairs, the
\* final unpaired value of an odd-length input as (value, 0); each side is quantized
\* on its own to level 0 for 0, 1 for (0,25], 2 for (25,50], 3 for (50,75] and 4 above
\* 75, after clamping to [0,100]; the glyph of a pair is the entry of a 5x5 table in
\* which (0,0) is a space and every other entry a glyph of the 8-dot braille block.
C17_BrailleGlyphs ==
    /\ \A l, r \in 0..4 :
          IF l = 0 /\ r = 0 THEN get_braille_char(l, r) = 32
          ELSE get_braille_char(l, r) \in BrailleBlock
    /\ BrailleGenerated =>
          \A k \in 1..((Len(values) + 1) \div 2) :
              chart.chart_data[k] =
                  get_braille_char(LevelOf(values[2 * k - 1]), LevelOf(RightOf(k)))

\* a braille chart of three values: a pair on two thresholds, then an unpaired value
C17_Witness ==
    /\ BrailleGenerated
    /\ Len(values) = 3
    /\ values[1] = Rat(25, 1)
    /\ values[2] = Rat(75, 1)
    /\ values[3] = Rat(50, 1)
    /\ chart.chart_data[1] = get_braille_char(1, 3)
    /\ chart.chart_data[2] = get_braille_char(2, 0)
    /\ chart.chart_data[3] = 46

\* the text t is the rational a rounded to an integer, right-aligned to width 2:
\* at most one leading space, a minus sign when a < 0, and the decimal digits of an
\* integer within one half of the magnitude of a
IsRoundedText(t, a) ==
    LET u == IF t # <<>> /\ Head(t) = 32 THEN Tail(t) ELSE t
        neg == u # <<>> /\ Head(u) = 45
        digits == IF neg THEN Tail(u) ELSE u
        k == DigitsToInt([i \in DOMAIN digits |-> digits[i] - 48])
    IN  /\ Len(t) >= 2
        /\ Len(t) > 2 => Head(t) # 32
        /\ digits # <<>>
        /\ \A i \in DOMAIN digits : digits[i] \in 48..57
        /\ neg <=> a[1] < 0
        /\ 2 * Abs(k * a[2] - Abs(a[1])) <= a[2]

\* the number of glyphs the claim gives a chart of the current input
GlyphCount == IF BarGenerated THEN Len(values) ELSE (Len(values) + 1) \div 2

\* C18: for a non-empty input of length n the bar chart is n glyphs and the braille
\* chart ceil(n/2) glyphs, followed by the suffix "..", the average of the input
\* rounded to an integer percent and right-aligned to width 2, "%", and the
\* end-of-data delimiter "|".
C18_LengthAndSuffix ==
    (values # <<>> /\ (BarGenerated \/ BrailleGenerated)) =>
        LET suffix == AfterGlyphs(GlyphCount)
        IN  /\ \A k \in 1..GlyphCount :
                  /\ k <= Len(chart.chart_data)
                  /\ chart.chart_data[k] \in
                        IF BarGenerated THEN {bar_chars[i] : i \in 1..9}
                        ELSE BrailleBlock \cup {32}
            /\ Len(suffix) >= 6
            /\ SubSeq(suffix, 1, 2) = <<46, 46>>
            /\ SubSeq(suffix, Len(suffix) - 1, Len(suffix)) = <<37, 124>>
            /\ IsRoundedText(SubSeq(suffix, 3, Len(suffix) - 2), Average(values))

\* a braille chart of three values whose average has one digit: two glyphs, "..",
\* a space and a digit, "%" and "|"
C18_Witness ==
    /\ BrailleGenerated
    /\ Len(values) = 3
    /\ Len(chart.chart_data) = 8
    /\ chart.chart_data[5] = 32
    /\ chart.chart_data[6] \in 49..57

(***************************************************************************)
(* SqliteStorage::store_metrics.  Every call opens a connection of its own *)
(* and writes the round record and the samples of its batch inside one     *)
(* transaction; anything that fails before the commit drops the            *)
(* transaction, which rolls it back.  The database lets one connection     *)
(* write at a time, and a statement of another connection reads what has   *)
(* been committed.                                                         *)
(***************************************************************************)
\* the largest number of round ids handed out
MaxStores == 3

\* a sample as store_metrics receives it: value is TEXT
StoreMetric(name, value) == [name |-> name, value |-> value]

\* what the CPU loop collects in one round
CpuBatch ==
    << StoreMetric("cpu.performance.total_ticks", <<2>>),
       StoreMetric("cpu.performance.idle_ticks", <<1>>) >>

\* what the GPU loop collects in one round
GpuBatch == << StoreMetric("gpu.utilization", <<5>>) >>

\* the batches a loop may hand to store_metrics, the empty one included
BatchesOf(w) == {<<>>, IF w = "cpu" THEN CpuBatch ELSE GpuBatch}

\* {:0w}: the digits of n in a field of w characters, filled with zeros
RECURSIVE ZeroPad(_, _)
ZeroPad(text, w) == IF Len(text) >= w THEN text ELSE ZeroPad(<<48>> \o text, w)

\* DateTime<Utc>::to_rfc3339 of the instant t (microseconds): the seconds, then no
\* fraction, three or six digits of fraction, whichever is the shortest that is
\* exact, then "+00:00".  The date, hour and minute, which are the same for every
\* instant of the model, are left out.
Rfc3339(t) ==
    LET micros == t % 1000000
        fraction == IF micros = 0 THEN <<>>
                    ELSE IF micros % 1000 = 0
                         THEN <<46>> \o ZeroPad(DecimalText(micros \div 1000), 3)
                         ELSE <<46>> \o ZeroPad(DecimalText(micros), 6)
    IN  ZeroPad(DecimalText(t \div 1000000), 2) \o fraction \o <<43, 48, 48, 58, 48, 48>>

\* a < b as TEXT under the BINARY collation, and as Rust's String::cmp
RECURSIVE TextLess(_, _)
TextLess(a, b) ==
    IF b = <<>> THEN FALSE
    ELSE IF a = <<>> THEN TRUE
    ELSE IF a[1] # b[1] THEN a[1] < b[1]
    ELSE TextLess(Tail(a), Tail(b))

\* the row of collection_rounds that a transaction inserts first
RoundRecord(tx) ==
    [id |-> tx.id, timestamp |-> Rfc3339(tx.timestamp), metrics_count |-> Len(tx.batch)]

\* the row of metrics inserted for the k-th sample of the batch
SampleRow(tx, k) ==
    [collection_round_id |-> tx.id, name |-> tx.batch[k].name,
     value |-> tx.batch[k].value, timestamp |-> Rfc3339(tx.timestamp)]

\* a transaction that loses the last sample it inserted
PendingRowsLosingLast(tx) == [k \in 1..(tx.inserted - 1) |-> SampleRow(tx, k)]

\* the rows of metrics a transaction has inserted and not yet committed
PendingRows(tx) == [k \in 1..tx.inserted |-> SampleRow(tx, k)]

\* the connections whose transaction holds uncommitted rows
InFlight == {w \in Writers : txs[w].pc = "writing"}

\* the uncommitted round records, in some order
RECURSIVE PendingRounds(_)
PendingRounds(ws) ==
    IF ws = {} THEN <<>>
    ELSE LET w == CHOOSE x \in ws : TRUE
         IN  <<RoundRecord(txs[w])>> \o PendingRounds(ws \ {w})

\* the uncommitted samples, in some order
RECURSIVE PendingSamples(_)
PendingSamples(ws) ==
    IF ws = {} THEN <<>>
    ELSE LET w == CHOOSE x \in ws : TRUE
         IN  PendingRows(txs[w]) \o PendingSamples(ws \ {w})

\* a reader that would see the rows of transactions still in flight
ReaderViewDirty ==
    [collection_rounds |-> collection_rounds \o PendingRounds(InFlight),
     stored_metrics |-> stored_metrics \o PendingSamples(InFlight)]

\* what one statement on a reader's connection sees: the committed rows
ReaderView ==
    [collection_rounds |-> collection_rounds, stored_metrics |-> stored_metrics]

\* store_metrics is called: an empty batch is refused at once, any other batch gets
\* its id and timestamp and a deferred transaction
BeginStore(w, batch) ==
    /\ txs[w].pc \in {"idle", "ok", "err"}
    /\ IF batch = <<>>
       THEN /\ txs' = [txs EXCEPT ![w] = [IdleTx EXCEPT !.pc = "err"]]
            /\ UNCHANGED issued
       ELSE /\ issued < MaxStores
            /\ issued' = issued + 1
            /\ txs' = [txs EXCEPT ![w] = [pc |-> "begun", id |-> issued + 1,
                                           timestamp |-> now, batch |-> batch,
                                           inserted |-> 0]]
    /\ UNCHANGED <<metrics, now, result, chartVars, chartStoreVars, collection_rounds,
                   stored_metrics, lock, seen>>

\* INSERT INTO collection_rounds: the first write takes the write lock
InsertRound(w) ==
    /\ txs[w].pc = "begun"
    /\ lock = NoWriter
    /\ lock' = w
    /\ txs' = [txs EXCEPT ![w].pc = "writing"]
    /\ UNCHANGED <<metrics, now, result, chartVars, chartStoreVars, collection_rounds,
                   stored_metrics, issued, seen>>

\* the write lock stays with another connection until the busy timeout: the insert
\* fails and the transaction is dropped
Busy(w) ==
    /\ txs[w].pc = "begun"
    /\ lock \notin {NoWriter, w}
    /\ txs' = [txs EXCEPT ![w].pc = "err"]
    /\ UNCHANGED <<metrics, now, result, chartVars, chartStoreVars, collection_rounds,
                   stored_metrics, lock, issued, seen>>

\* INSERT INTO metrics for the next sample of the batch
InsertMetric(w) ==
    /\ txs[w].pc = "writing"
    /\ txs[w].inserted < Len(txs[w].batch)
    /\ txs' = [txs EXCEPT ![w].inserted = @ + 1]
    /\ UNCHANGED <<metrics, now, result, chartVars, chartStoreVars, collection_rounds,
                   stored_metrics, lock, issued, seen>>

\* an insert or the commit returns an error: `?` leaves the function, the transaction
\* is dropped and rolled back; inserted keeps the number of samples written before
StoreFails(w) ==
    /\ txs[w].pc = "writing"
    /\ txs' = [txs EXCEPT ![w].pc = "err"]
    /\ lock' = NoWriter
    /\ UNCHANGED <<metrics, now, result, chartVars, chartStoreVars, collection_rounds,
                   stored_metrics, issued, seen>>

\* tx.commit(): the round record and every sample become committed together
Commit(w) ==
    /\ txs[w].pc = "writing"
    /\ txs[w].inserted = Len(txs[w].batch)
    /\ collection_rounds' = Append(collection_rounds, RoundRecord(txs[w]))
    /\ stored_metrics' = stored_metrics \o PendingRows(txs[w])
    /\ txs' = [txs EXCEPT ![w].pc = "ok"]
    /\ lock' = NoWriter
    /\ UNCHANGED <<metrics, now, result, chartVars, chartStoreVars, issued, seen>>

\* a reader runs its statement on a connection of its own
Read ==
    /\ seen' = ReaderView
    /\ UNCHANGED <<metrics, now, result, chartVars, chartStoreVars, collection_rounds,
                   stored_metrics, txs, lock, issued>>

\* two collection loops and a reader share one database file
NextStore ==
    \/ Tick
    \/ \E w \in Writers : \E batch \in BatchesOf(w) : BeginStore(w, batch)
    \/ \E w \in Writers : InsertRound(w)
    \/ \E w \in Writers : Busy(w)
    \/ \E w \in Writers : InsertMetric(w)
    \/ \E w \in Writers : StoreFails(w)
    \/ \E w \in Writers : Commit(w)
    \/ Read

SpecStore == Init /\ [][NextStore]_vars

(***************************************************************************)
(* Properties of store_metrics.                                            *)
(***************************************************************************)
\* the rows of metrics in a view that belong to round id
RowsOfRound(view, id) ==
    {k \in 1..Len(view.stored_metrics) : view.stored_metrics[k].collection_round_id = id}

\* the ids of the round records in a view
RoundIds(view) == {view.collection_rounds[k].id : k \in 1..Len(view.collection_rounds)}

\* every round record of the view has all the samples it counts, and every sample
\* of the view has its round record
WholeRounds(view) ==
    /\ \A k \in 1..Len(view.collection_rounds) :
          Cardinality(RowsOfRound(view, view.collection_rounds[k].id))
              = view.collection_rounds[k].metrics_count
    /\ \A k \in 1..Len(view.stored_metrics) :
          view.stored_metrics[k].collection_round_id \in RoundIds(view)

\* nothing of round id is in the view
Absent(view, id) == id \notin RoundIds(view) /\ RowsOfRound(view, id) = {}

\* the samples of a committed batch are the rows of its round, in the batch's order
BatchStored(view, tx) ==
    /\ tx.id \in RoundIds(view)
    /\ \E f \in [1..Len(tx.batch) -> RowsOfRound(view, tx.id)] :
          /\ \A i, j \in 1..Len(tx.batch) : i < j => f[i] < f[j]
          /\ \A i \in 1..Len(tx.batch) : view.stored_metrics[f[i]] = SampleRow(tx, i)

\* C20: a store_metrics write is all-or-nothing: what a reader saw and what is
\* committed hold only whole rounds (a round record with exactly the samples it
\* counts, no sample without its record); a round still being written is in neither;
\* a batch whose store failed has left neither its round record nor a sample; a
\* batch whose store returned Ok is stored with all its samples.
C20_AllOrNothing ==
    /\ WholeRounds(seen)
    /\ WholeRounds(ReaderView)
    /\ \A w \in Writers :
          /\ txs[w].pc \in {"begun", "writing"} =>
                Absent(seen, txs[w].id) /\ Absent(ReaderView, txs[w].id)
          /\ (txs[w].pc = "err" /\ txs[w].id # 0) =>
                Absent(seen, txs[w].id) /\ Absent(ReaderView, txs[w].id)
          /\ txs[w].pc = "ok" => BatchStored(ReaderView, txs[w])

\* C20 witness: the reader holds a committed round while the CPU loop's transaction
\* has written some of its samples and not all, and the GPU loop's store has failed
\* after its sample was inserted
C20_Witness ==
    /\ seen = ReaderView
    /\ seen.collection_rounds # <<>>
    /\ txs["cpu"].pc = "writing"
    /\ txs["cpu"].inserted = 1
    /\ txs["gpu"].pc = "err"
    /\ txs["gpu"].inserted = 1

\* the positions of the round records of the view that carry round id
RoundsWithId(view, id) ==
    {k \in 1..Len(view.collection_rounds) : view.collection_rounds[k].id = id}

\* C21: after any sequence of store_metrics calls, failed ones included, every
\* stored metric row references exactly one existing collection round, every
\* round's metrics_count is the number of rows stored with its id, and for a call
\* that returned Ok that number is the size of the batch passed in and the
\* metrics_count of the CollectionRound returned.
C21_RoundCounts ==
    /\ \A k \in 1..Len(stored_metrics) :
          Cardinality(RoundsWithId(ReaderView, stored_metrics[k].collection_round_id)) = 1
    /\ \A k \in 1..Len(collection_rounds) :
          collection_rounds[k].metrics_count
              = Cardinality(RowsOfRound(ReaderView, collection_rounds[k].id))
    /\ \A w \in Writers :
          txs[w].pc = "ok" =>
             /\ Cardinality(RowsOfRound(ReaderView, txs[w].id)) = Len(txs[w].batch)
             /\ \E k \in 1..Len(collection_rounds) :
                   collection_rounds[k] = RoundRecord(txs[w])

\* C21 witness: two rounds of different sizes are stored, and a third store has
\* failed after one of its two samples was inserted
C21_Witness ==
    /\ Len(collection_rounds) = 2
    /\ Len(stored_metrics) = 3
    /\ txs["gpu"].pc = "ok"
    /\ txs["cpu"].pc = "err"
    /\ txs["cpu"].inserted = 1

\* the pair of levels the k-th glyph of the braille chart was made from
LevelPair(k) == <<LevelOf(values[2 * k - 1]), LevelOf(RightOf(k))>>

\* C30: the braille lookup table distinguishes all 25 level pairs: two groups of a
\* braille chart whose (left_level, right_level) pairs differ are rendered as
\* different glyphs.
C30_GlyphsDistinct ==
    BrailleGenerated =>
       \A j, k \in 1..GlyphCount :
          chart.chart_data[j] = chart.chart_data[k] => LevelPair(j) = LevelPair(k)

(***************************************************************************)
(* Chart generation from the stored rounds: get_recent_utilization_data,   *)
(* extract_metric_values, generate_and_store_charts and store_chart of     *)
(* src/storage/sqlite.rs.  One collector writes its rounds one after the   *)
(* other, each at a later instant than the one before.                     *)
(***************************************************************************)
\* rounds the collector stores
MaxChartRounds == 3
\* the largest data_points a chart generation is asked for
MaxDataPoints == 2
\* a chart generation starts while the charts table holds fewer rows than this
MaxChartRows == 4

\* the decimal digits of n >= 0 as a numeric TEXT
RECURSIVE DigitText(_)
DigitText(n) == IF n < 10 THEN <<n>> ELSE DigitText(n \div 10) \o <<n % 10>>

\* a value that is no number
MalformedValue == <<120>>

\* WHERE m.name IN (...)
UtilizationNames ==
    {"cpu.performance.total_ticks", "cpu.performance.idle_ticks",
     "cpu.efficiency.total_ticks", "cpu.efficiency.idle_ticks", "gpu.utilization"}

\* the cumulative counters of the n-th round: the performance cores are busy half
\* of the time, the efficiency cores a fifth
CounterBatch(n) ==
    << StoreMetric("cpu.performance.total_ticks", DigitText(100 + 10 * n)),
       StoreMetric("cpu.performance.idle_ticks", DigitText(90 + 5 * n)),
       StoreMetric("cpu.efficiency.total_ticks", DigitText(100 + 10 * n)),
       StoreMetric("cpu.efficiency.idle_ticks", DigitText(70 + 8 * n)) >>

\* what one collection of the n-th round hands to store_metrics: the CPU counters
\* and the GPU utilization, the CPU counters alone when the GPU collector failed,
\* or the counters with one value that is no number
RoundBatch(kind, n) ==
    IF kind = "cpu" THEN CounterBatch(n)
    ELSE IF kind = "malformed"
         THEN <<StoreMetric("cpu.performance.total_ticks", MalformedValue)>>
                 \o Tail(CounterBatch(n))
                 \o <<StoreMetric("gpu.utilization", DigitText(30 + n))>>
         ELSE CounterBatch(n) \o <<StoreMetric("gpu.utilization", DigitText(30 + n))>>

BatchKinds == {"full", "cpu", "malformed"}

\* a store_metrics call of the only writer, run to its commit
StoredBy(batch) ==
    [pc |-> "ok", id |-> issued + 1, timestamp |-> now, batch |-> batch,
     inserted |-> Len(batch)]

\* the collector's loop: the interval has elapsed since the last round, and the
\* batch collected is stored
StoreMetrics(batch) ==
    /\ issued < MaxChartRounds
    /\ \A k \in 1..Len(collection_rounds) :
          TextLess(collection_rounds[k].timestamp, Rfc3339(now))
    /\ collection_rounds' = Append(collection_rounds, RoundRecord(StoredBy(batch)))
    /\ stored_metrics' = stored_metrics \o PendingRows(StoredBy(batch))
    /\ issued' = issued + 1
    /\ UNCHANGED <<metrics, now, result, chartVars, txs, lock, seen, chartStoreVars>>

\* FROM collection_rounds cr JOIN metrics m ON cr.id = m.collection_round_id
\* WHERE m.name IN (...): the rowids of metrics that the join yields
JoinRows ==
    {k \in 1..Len(stored_metrics) :
        /\ stored_metrics[k].name \in UtilizationNames
        /\ stored_metrics[k].collection_round_id \in RoundIds(ReaderView)}

\* cr.timestamp of the round with this id
RoundTimestamp(id) ==
    collection_rounds[CHOOSE k \in 1..Len(collection_rounds) :
                         collection_rounds[k].id = id].timestamp

\* the rows of the join in the order of ORDER BY cr.timestamp DESC, cut after
\* `remaining` rows: the rounds with the latest timestamp come first and whole while
\* they fit; of the rounds the cut goes through any rows may be the ones returned,
\* the statement fixing no order among rows of equal timestamp
RECURSIVE TakeRows(_, _)
TakeRows(ids, remaining) ==
    IF ids = {} \/ remaining = 0 THEN {{}}
    ELSE LET top == {i \in ids :
                        \A j \in ids : ~TextLess(RoundTimestamp(i), RoundTimestamp(j))}
             rows == {k \in JoinRows : stored_metrics[k].collection_round_id \in top}
         IN  IF Cardinality(rows) <= remaining
             THEN {rows \cup T : T \in TakeRows(ids \ top, remaining - Cardinality(rows))}
             ELSE {B \in SUBSET rows : Cardinality(B) = remaining}

\* ORDER BY cr.timestamp DESC LIMIT rounds * 5: the sets of rows the statement may
\* return
ReadChoices(rounds) ==
    TakeRows({stored_metrics[k].collection_round_id : k \in JoinRows}, rounds * 5)

\* value.parse().unwrap_or(0)
ParseOrZero(text) == IF ParseI64(text) = <<>> THEN 0 ELSE ParseI64(text)[1]

\* the field a round's entry gets from the rows read: the parsed value of the row
\* with this name, the default 0 when no such row was read
FieldOf(S, id, name) ==
    LET ks == {k \in S : /\ stored_metrics[k].collection_round_id = id
                         /\ stored_metrics[k].name = name}
    IN  IF ks = {} THEN 0 ELSE ParseOrZero(stored_metrics[CHOOSE k \in ks : TRUE].value)

\* the UtilizationData built for one round id
UtilizationEntry(S, id) ==
    [round_id   |-> id,
     timestamp  |-> RoundTimestamp(id),
     perf_total |-> FieldOf(S, id, "cpu.performance.total_ticks"),
     perf_idle  |-> FieldOf(S, id, "cpu.performance.idle_ticks"),
     eff_total  |-> FieldOf(S, id, "cpu.efficiency.total_ticks"),
     eff_idle   |-> FieldOf(S, id, "cpu.efficiency.idle_ticks"),
     gpu_util   |-> <<FieldOf(S, id, "gpu.utilization"), 1>>]

\* result.sort_by(|a, b| b.timestamp.cmp(&a.timestamp)): most recent first
RECURSIVE MostRecentFirst(_)
MostRecentFirst(ids) ==
    IF ids = {} THEN <<>>
    ELSE LET top == CHOOSE i \in ids :
                       \A j \in ids : ~TextLess(RoundTimestamp(i), RoundTimestamp(j))
         IN  <<top>> \o MostRecentFirst(ids \ {top})

\* SqliteStorage::get_recent_utilization_data, from the rows S the statement returned
get_recent_utilization_data(S) ==
    LET ids == {stored_metrics[k].collection_round_id : k \in S}
        order == MostRecentFirst(ids)
    IN  [i \in 1..Len(order) |-> UtilizationEntry(S, order[i])]

\* ((delta_total - delta_idle) as f64 / delta_total as f64) * 100.0, 0.0 unless
\* delta_total > 0
DeltaUtilization(delta_total, delta_idle) ==
    IF delta_total > 0 THEN Rat((delta_total - delta_idle) * 100, delta_total)
    ELSE ZeroRate

\* the value pushed for data[i-1] (curr) and data[i] (prev)
MetricValueOf(curr, prev, metric) ==
    IF metric = "performance_cores_utilization"
    THEN DeltaUtilization(curr.perf_total - prev.perf_total, curr.perf_idle - prev.perf_idle)
    ELSE IF metric = "efficiency_cores_utilization"
    THEN DeltaUtilization(curr.eff_total - prev.eff_total, curr.eff_idle - prev.eff_idle)
    ELSE IF metric = "gpu_utilization" THEN curr.gpu_util
    ELSE ZeroRate

\* SqliteStorage::extract_metric_values
extract_metric_values(data, metric) ==
    IF Len(data) < 2 THEN <<>>
    ELSE [i \in 1..(Len(data) - 1) |-> MetricValueOf(data[i], data[i + 1], metric)]

\* let metrics = [...] of generate_and_store_charts and of chart_query
ChartMetrics ==
    <<"performance_cores_utilization", "efficiency_cores_utilization", "gpu_utilization">>

\* the row store_chart inserts for a Chart
ChartRow(round_id, metric_name, chart_type, chart_data, data_points, t) ==
    [collection_round_id |-> round_id, metric_name |-> metric_name,
     chart_type |-> chart_type, chart_data |-> chart_data,
     data_points |-> data_points, timestamp |-> Rfc3339(t)]

\* a store that keeps one row per (round, metric, encoding), the latest
ReplaceChart(table, row) ==
    LET same == {k \in 1..Len(table) :
                    /\ table[k].collection_round_id = row.collection_round_id
                    /\ table[k].metric_name = row.metric_name
                    /\ table[k].chart_type = row.chart_type}
    IN  IF same = {} THEN Append(table, row)
        ELSE [k \in 1..Len(table) |-> IF k \in same THEN row ELSE table[k]]

\* the charts table after store_chart: INSERT INTO charts, the rowid assigned anew
InsertChart(table, row) == Append(table, row)

\* the charts table after one store_chart call for each row in turn
RECURSIVE InsertCharts(_, _)
InsertCharts(table, rows) ==
    IF rows = <<>> THEN table
    ELSE InsertCharts(InsertChart(table, Head(rows)), Tail(rows))

\* the body of the loop over the metrics: the charts stored for one metric
ChartsOfMetric(data, metric_name, round_id, data_points, t) ==
    LET vals == extract_metric_values(data, metric_name)
        braille_points == (data_points + 1) \div 2
    IN  IF Len(vals) >= data_points
        THEN <<ChartRow(round_id, metric_name, "bar",
                        generate_bar_chart(SubSeq(vals, 1, data_points)),
                        data_points, t)>>
             \o (IF Len(vals) >= braille_points * 2
                 THEN <<ChartRow(round_id, metric_name, "braille",
                                 generate_braille_chart(SubSeq(vals, 1, braille_points * 2)),
                                 braille_points, t)>>
                 ELSE <<>>)
        ELSE <<>>

\* the charts one pass stores, in the order of its store_chart calls
ChartsOfPass(data, round_id, data_points, t) ==
    ChartsOfMetric(data, ChartMetrics[1], round_id, data_points, t)
        \o ChartsOfMetric(data, ChartMetrics[2], round_id, data_points, t)
        \o ChartsOfMetric(data, ChartMetrics[3], round_id, data_points, t)

\* a pass that reports too few data points as an error
PassStatusStrict(data) == IF Len(data) < 2 THEN "err" ELSE "ok"

\* what a pass returns once its read has succeeded: Ok(()) from the early return as
\* from the end of the loop
PassStatus(data) == IF Len(data) < 2 THEN "ok" ELSE "ok"

\* SqliteStorage::generate_and_store_charts
GenerateAndStoreCharts(round_id, data_points) ==
    /\ Len(charts) < MaxChartRows
    /\ \E S \in ReadChoices(data_points + 1) :
          LET data == get_recent_utilization_data(S)
          IN  /\ charts' = IF Len(data) < 2 THEN charts
                           ELSE InsertCharts(charts,
                                             ChartsOfPass(data, round_id, data_points, now))
              /\ outcome' = [op |-> "generate_and_store_charts", status |-> PassStatus(data),
                             round_id |-> round_id, data_points |-> data_points,
                             rows |-> S, data |-> data, first |-> Len(charts) + 1]
    /\ UNCHANGED <<metrics, now, result, chartVars, metricStoreVars>>

\* the collector stores its rounds and has the charts of the latest round generated
NextGenerate ==
    \/ Tick
    \/ \E kind \in BatchKinds : StoreMetrics(RoundBatch(kind, issued + 1))
    \/ \E data_points \in 1..MaxDataPoints : GenerateAndStoreCharts(issued, data_points)

SpecGenerate == Init /\ [][NextGenerate]_vars

(***************************************************************************)
(* Properties of the chart generation.                                     *)
(***************************************************************************)
\* the collection rounds that have utilization data
RoundsWithData == {stored_metrics[k].collection_round_id : k \in JoinRows}

\* the last call on the charts table was a chart generation
Generated == outcome.op = "generate_and_store_charts"

\* the step is a call of generate_and_store_charts
GenerateStep == \E dp \in 1..MaxDataPoints : GenerateAndStoreCharts(issued, dp)

\* C23: when fewer than 2 collection rounds with utilization data are available,
\* generate_and_store_charts is a no-op and not an error: it returns success and
\* leaves the charts table and every other table of the store unchanged.
C23_NoOpBelowTwo ==
    [][(GenerateStep /\ Cardinality(RoundsWithData) < 2) =>
          /\ outcome'.status = "ok"
          /\ charts' = charts
          /\ collection_rounds' = collection_rounds
          /\ stored_metrics' = stored_metrics]_vars

\* C23 witness: a generation has run with one round of utilization data stored
C23_Witness ==
    /\ Generated
    /\ Len(outcome.data) = 1
    /\ Cardinality(RoundsWithData) = 1
    /\ charts = <<>>

\* a row that the last generation read holds a value that is no number
ReadMalformed ==
    \E k \in outcome.rows : ParseI64(stored_metrics[k].value) = <<>>

\* C24: a stored counter value that is not parseable as a number is rejected with a
\* validation failure when utilization data for charts is derived from the store:
\* a generation that read such a value next to another round's counters does not
\* return success (and so does not difference a 0 put in its place).
C24_MalformedRejected ==
    (Generated /\ ReadMalformed /\ Len(outcome.data) >= 2) => outcome.status # "ok"

\* the read of the last generation left out a stored tick metric of this round
Truncated(id) ==
    \E k \in JoinRows : stored_metrics[k].collection_round_id = id /\ k \notin outcome.rows

\* the rows of the charts table that the last generation stored
PassCharts == outcome.first..Len(charts)

\* the number of values encoded in a chart row: a braille glyph holds two
ValuesEncoded(c) == IF c.chart_type = "bar" THEN c.data_points ELSE 2 * c.data_points

\* C28: every utilization value encoded in a stored chart is computed from two
\* collection rounds all of whose stored tick metrics were read: no round that the
\* row limit of get_recent_utilization_data cut through is differenced into a value
\* of a stored bar or braille chart.
C28_NoTruncatedRound ==
    Generated =>
       \A i \in PassCharts :
          \A j \in 1..(ValuesEncoded(charts[i]) + 1) :
             ~Truncated(outcome.data[j].round_id)

\* C29: in one pass of generate_and_store_charts, whenever a bar chart is stored for
\* a metric, a braille chart for the same metric and round is stored as well.
C29_BrailleWithBar ==
    Generated =>
       \A i \in PassCharts :
          charts[i].chart_type = "bar" =>
             \E j \in PassCharts :
                /\ charts[j].chart_type = "braille"
                /\ charts[j].metric_name = charts[i].metric_name
                /\ charts[j].collection_round_id = charts[i].collection_round_id

(***************************************************************************)
(* The chart cache: store_chart and get_latest_charts of                   *)
(* src/storage/sqlite.rs and the compact output of src/bin/chart_query.rs. *)
(***************************************************************************)
\* rows the charts table may hold when charts are stored one by one
MaxStoredCharts == 3
\* the largest limit a query is made with
MaxLimit == 2

\* the chart types of the chart_type column
ChartTypes == {"bar", "braille"}

\* the round collected at the instant t
RoundAt(t) == t \div TickMicros + 1

\* a chart data text: one glyph for the value at this instant and the annotation
ChartDataAt(chart_type, t) ==
    IF chart_type = "bar" THEN generate_bar_chart(<<Rat(25 * RoundAt(t), 1)>>)
    ELSE generate_braille_chart(<<Rat(25 * RoundAt(t), 1)>>)

\* SqliteStorage::store_chart: one INSERT on a connection of its own
StoreChart(row) ==
    /\ Len(charts) < MaxStoredCharts
    /\ charts' = InsertChart(charts, row)
    /\ outcome' = [op |-> "store_chart", status |-> "ok"]
    /\ UNCHANGED <<metrics, now, result, chartVars, metricStoreVars>>

\* WHERE metric_name IN (...) AND chart_type = ?: the rowids of charts selected
MatchingCharts(metric_names, chart_type) ==
    {k \in 1..Len(charts) :
        /\ \E i \in 1..Len(metric_names) : charts[k].metric_name = metric_names[i]
        /\ charts[k].chart_type = chart_type}

\* ORDER BY timestamp DESC LIMIT ?: the sequences of rowids the statement may return;
\* it fixes no order among rows of equal timestamp
LatestChoices(metric_names, chart_type, limit) ==
    LET matching == MatchingCharts(metric_names, chart_type)
        n == IF Cardinality(matching) < limit THEN Cardinality(matching) ELSE limit
    IN  {q \in [1..n -> matching] :
            /\ \A i, j \in 1..n : i # j => q[i] # q[j]
            /\ \A i, j \in 1..n :
                  i < j => ~TextLess(charts[q[i]].timestamp, charts[q[j]].timestamp)
            /\ \A k \in matching \ {q[i] : i \in 1..n} :
                  \A i \in 1..n : ~TextLess(charts[q[i]].timestamp, charts[k].timestamp)}

\* SqliteStorage::get_latest_charts
GetLatestCharts(metric_names, chart_type, limit) ==
    /\ \E q \in LatestChoices(metric_names, chart_type, limit) :
          outcome' = [op |-> "get_latest_charts", status |-> "ok",
                      metric_names |-> metric_names, chart_type |-> chart_type,
                      limit |-> limit, size |-> Len(charts),
                      charts |-> [i \in 1..Len(q) |-> charts[q[i]]]]
    /\ UNCHANGED <<metrics, now, result, chartVars, metricStoreVars, charts>>

\* the prefix chart_query prints before the chart of a metric: "P:", "E:", "G:"
SegmentPrefix(metric_name) ==
    IF metric_name = "performance_cores_utilization" THEN <<80, 58>>
    ELSE IF metric_name = "efficiency_cores_utilization" THEN <<69, 58>>
    ELSE IF metric_name = "gpu_utilization" THEN <<71, 58>>
    ELSE <<>>

\* round_charts.iter().find(|c| &c.metric_name == metric) and the push_str
Segment(round_charts, metric_name) ==
    LET found == {i \in 1..Len(round_charts) : round_charts[i].metric_name = metric_name}
    IN  IF found = {} THEN <<>>
        ELSE LET first == CHOOSE i \in found : \A j \in found : i <= j
             IN  SegmentPrefix(metric_name) \o round_charts[first].chart_data

\* output.trim_end_matches('|')
RECURSIVE TrimEndBars(_)
TrimEndBars(text) ==
    IF text # <<>> /\ text[Len(text)] = 124
    THEN TrimEndBars(SubSeq(text, 1, Len(text) - 1))
    ELSE text

\* the charts of one round among those returned, in the order returned
RECURSIVE ChartsOfRound(_, _)
ChartsOfRound(cs, round_id) ==
    IF cs = <<>> THEN <<>>
    ELSE (IF Head(cs).collection_round_id = round_id THEN <<Head(cs)>> ELSE <<>>)
            \o ChartsOfRound(Tail(cs), round_id)

\* the line println! writes for the charts of one round
CompactLine(round_charts) ==
    TrimEndBars(Segment(round_charts, ChartMetrics[1])
                   \o Segment(round_charts, ChartMetrics[2])
                   \o Segment(round_charts, ChartMetrics[3]))

\* chart_query --format compact: the charts are grouped by round in a HashMap and
\* the group its iterator yields first is printed; which group that is depends on
\* the hasher's random keys
ChartQuery(chart_type, limit) ==
    /\ \E q \in LatestChoices(ChartMetrics, chart_type, limit) :
          LET cs == [i \in 1..Len(q) |-> charts[q[i]]]
          IN  IF cs = <<>>
              THEN outcome' = [op |-> "chart_query", status |-> "exit 1",
                               charts |-> cs, round_id |-> 0, output |-> <<>>]
              ELSE \E r \in {cs[i].collection_round_id : i \in 1..Len(cs)} :
                      outcome' = [op |-> "chart_query", status |-> "ok",
                                  charts |-> cs, round_id |-> r,
                                  output |-> CompactLine(ChartsOfRound(cs, r))]
    /\ UNCHANGED <<metrics, now, result, chartVars, metricStoreVars, charts>>

\* the metric names a query asks for: all three, or the performance cores alone
NameChoices == {ChartMetrics, <<ChartMetrics[1]>>}

\* charts are stored as the clock advances, and queried
NextCache ==
    \/ Tick
    \/ \E i \in 1..Len(ChartMetrics) : \E chart_type \in ChartTypes :
          StoreChart(ChartRow(RoundAt(now), ChartMetrics[i], chart_type,
                              ChartDataAt(chart_type, now), 1, now))
    \/ \E metric_names \in NameChoices : \E chart_type \in ChartTypes :
          \E limit \in 1..MaxLimit : GetLatestCharts(metric_names, chart_type, limit)
    \/ \E chart_type \in ChartTypes : \E limit \in 1..MaxLimit :
          ChartQuery(chart_type, limit)

SpecCache == Init /\ [][NextCache]_vars

(***************************************************************************)
(* Properties of the chart cache.                                          *)
(***************************************************************************)
\* the last call was get_latest_charts
LatestReturned == outcome.op = "get_latest_charts"

\* the rows of the requested encoding stored for a metric when the call was made
StoredFor(metric_name) ==
    {k \in 1..outcome.size :
        /\ charts[k].metric_name = metric_name
        /\ charts[k].chart_type = outcome.chart_type}

\* the positions of the charts returned for a metric
ReturnedFor(metric_name) ==
    {i \in 1..Len(outcome.charts) : outcome.charts[i].metric_name = metric_name}

\* C22: get_latest_charts(metric_names, encoding, limit) returns only charts of the
\* requested encoding and metric names, most recent first, and for each requested
\* metric its up-to-limit most recent charts of that encoding.
C22_LatestPerMetric ==
    LatestReturned =>
       /\ \A i \in 1..Len(outcome.charts) :
             /\ outcome.charts[i].chart_type = outcome.chart_type
             /\ \E n \in 1..Len(outcome.metric_names) :
                   outcome.charts[i].metric_name = outcome.metric_names[n]
       /\ \A i, j \in 1..Len(outcome.charts) :
             i < j => ~TextLess(outcome.charts[i].timestamp, outcome.charts[j].timestamp)
       /\ \A n \in 1..Len(outcome.metric_names) :
             LET m == outcome.metric_names[n]
                 most == IF Cardinality(StoredFor(m)) < outcome.limit
                         THEN Cardinality(StoredFor(m)) ELSE outcome.limit
             IN  /\ Cardinality(ReturnedFor(m)) = most
                 /\ \A i \in ReturnedFor(m) :
                       Cardinality({k \in StoredFor(m) :
                                       TextLess(outcome.charts[i].timestamp,
                                                charts[k].timestamp)}) < outcome.limit

\* the last call was chart_query and it printed a line
Printed == outcome.op = "chart_query" /\ outcome.status = "ok"

\* the rounds of the charts that get_latest_charts returned to chart_query
RoundsReturned ==
    {outcome.charts[i].collection_round_id : i \in 1..Len(outcome.charts)}

\* the charts of this round are the most recent ones among those returned
LatestRound(round_id) ==
    \E i \in 1..Len(outcome.charts) :
       /\ outcome.charts[i].collection_round_id = round_id
       /\ \A j \in 1..Len(outcome.charts) :
             ~TextLess(outcome.charts[i].timestamp, outcome.charts[j].timestamp)

\* C27: in compact format chart_query prints the charts of the most recent round:
\* whenever the charts returned span more than one round, the line printed is the
\* line of the round with the latest timestamp among them.
C27_PrintsLatestRound ==
    (Printed /\ Cardinality(RoundsReturned) > 1) =>
       /\ LatestRound(outcome.round_id)
       /\ outcome.output = CompactLine(ChartsOfRound(outcome.charts, outcome.round_id))

\* C25: charts are immutable once stored and chart storage only appends: no call
\* modifies or deletes an existing chart row; a chart stored again for the same
\* (round, metric, encoding) is a further row, the earlier row staying as it was.
C25_ChartsAppendOnly ==
    [][/\ Len(charts') >= Len(charts)
       /\ SubSeq(charts', 1, Len(charts)) = charts]_vars

\* C25 witness: the table holds two rows for one (round, metric, encoding)
C25_Witness ==
    \E i, j \in 1..Len(charts) :
       /\ i < j
       /\ charts[i].collection_round_id = charts[j].collection_round_id
       /\ charts[i].metric_name = charts[j].metric_name
       /\ charts[i].chart_type = charts[j].chart_type

(***************************************************************************)
(* Storage::query_latest of src/storage/mod.rs.                            *)
(***************************************************************************)
\* rows the metrics table may hold when samples of every value type are stored
MaxQueryRows == 2

\* the values a sample may carry, one of each type and the float that is no number
QueryValues ==
    <<IntegerValue(12345), FloatValue(<<1, 2>>), FloatValue(NullRate),
      StringValue(<<97>>), BooleanValue(TRUE)>>

\* the names under which samples are stored
QueryNames == {"cpu_ticks", "gpu_utilization"}

\* the statement with ORDER BY timestamp ASC: the oldest rows, oldest first
QueryChoicesAscending(name, limit) ==
    LET matching == {k \in 1..Len(metrics) : metrics[k].name = name}
        n == IF Cardinality(matching) < limit THEN Cardinality(matching) ELSE limit
    IN  {q \in [1..n -> matching] :
            /\ \A i, j \in 1..n : i # j => q[i] # q[j]
            /\ \A i, j \in 1..n : i < j => metrics[q[i]].timestamp <= metrics[q[j]].timestamp
            /\ \A k \in matching \ {q[i] : i \in 1..n} :
                  \A i \in 1..n : metrics[q[i]].timestamp <= metrics[k].timestamp}

\* WHERE name = ?1 ORDER BY timestamp DESC LIMIT ?2: the sequences of rowids the
\* statement may return; it fixes no order among rows of equal timestamp
QueryChoices(name, limit) ==
    LET matching == {k \in 1..Len(metrics) : metrics[k].name = name}
        n == IF Cardinality(matching) < limit THEN Cardinality(matching) ELSE limit
    IN  {q \in [1..n -> matching] :
            /\ \A i, j \in 1..n : i # j => q[i] # q[j]
            /\ \A i, j \in 1..n : i < j => metrics[q[i]].timestamp >= metrics[q[j]].timestamp
            /\ \A k \in matching \ {q[i] : i \in 1..n} :
                  \A i \in 1..n : metrics[q[i]].timestamp >= metrics[k].timestamp}

\* the value column that the row's value_type selects; row.get fails on NULL
ValueColumn(row) ==
    IF row.value_type = "integer" THEN row.value_int
    ELSE IF row.value_type = "float" THEN row.value_float
    ELSE IF row.value_type = "string" THEN row.value_text
    ELSE row.value_bool

\* the closure of query_map returns Err for the row
RowFails(row) ==
    \/ row.value_type \notin {"integer", "float", "string", "boolean"}
    \/ ValueColumn(row) = <<>>

\* the Metric the closure of query_map builds from a row
RowToMetric(row) ==
    [name      |-> row.name,
     value     |-> IF row.value_type = "boolean"
                   THEN BooleanValue(row.value_bool[1] # 0)
                   ELSE [type |-> row.value_type, v |-> ValueColumn(row)[1]],
     timestamp |-> row.timestamp * 1000,
     metadata  |-> row.metadata]

\* Storage::query_latest(name, limit): metrics.collect() is the first Err, if any
QueryLatest(name, limit) ==
    /\ \E q \in QueryChoices(name, limit) :
          outcome' =
             IF \E i \in 1..Len(q) : RowFails(metrics[q[i]])
             THEN [op |-> "query_latest", status |-> "err", name |-> name,
                   limit |-> limit, metrics |-> <<>>]
             ELSE [op |-> "query_latest", status |-> "ok", name |-> name,
                   limit |-> limit,
                   metrics |-> [i \in 1..Len(q) |-> RowToMetric(metrics[q[i]])]]
    /\ UNCHANGED <<metrics, now, result, chartVars, metricStoreVars, charts>>

\* samples of any value type are stored as the clock advances, and queried
NextQuery ==
    \/ Tick
    \/ \E name \in QueryNames : \E v \in 1..Len(QueryValues) :
          /\ Len(metrics) < MaxQueryRows
          /\ InsertMetrics(<<NewMetric(name, QueryValues[v], Core0)>>)
    \/ \E name \in QueryNames : \E limit \in 1..MaxLimit : QueryLatest(name, limit)

SpecQuery == Init /\ [][NextQuery]_vars

\* the last call was query_latest
Queried == outcome.op = "query_latest"

====
